---- MODULE Spec2Model ----
(***************************************************************************)
(* Verification model of rust-script / cargo-eval (epage/cargo-script-mvs). *)
(*                                                                         *)
(* The model covers the package cache on disk (src/src/main.rs: try_main,  *)
(* decide_action_for, gen_pkg_and_compile, overwrite_file, clean_cache)    *)
(* and the change-aware writer of src/src/util/mod.rs (write_if_changed),  *)
(* and the pure functions that make the package out of a script            *)
(* (src/src/manifest.rs: split_input and what it calls).                   *)
(*                                                                         *)
(* Specifications:                                                         *)
(*   SpecFile  the two file writers called directly, one step at a time    *)
(*   Spec      invocations of try_main run one after another               *)
(*   SpecGc    invocations of try_main on a cache that is already filled   *)
(*   SpecConc  two invocations of try_main on one script, concurrently     *)
(*   SpecId    Input::compute_id applied to the inputs of two invocations  *)
(*   SpecMerge merge_manifest applied to a default and a fragment          *)
(*   SpecSplit split_input applied to script files                         *)
(*   SpecName  package_name and default_manifest applied to file names     *)
(*   SpecFix   fix_manifest_paths applied to manifests and directories     *)
(*   SpecFind  find_script applied to paths and directories                *)
(*   SpecScrape scrape_markdown_manifest applied to doc comments           *)
(*   SpecPkg   invocations on one script, with and without --pkg-path      *)
(*   SpecShare two invocations at once, each on a script of its own        *)
(***************************************************************************)
EXTENDS Naturals, FiniteSets, Sequences, TLC

VARIABLES
    now,        \* platform::current_time(), in abstract clock ticks
    projRoot,   \* does <cache>/projects exist
    stray,      \* is there a plain file directly under <cache>/projects
    dir,        \* the package directories: cache entries and the --pkg-path one
    bin,        \* <cache>/binaries: the built artifact of each input id
    proc,       \* one record per running invocation (its locals and position)
    started,    \* number of invocations / direct calls started so far
    pure        \* the call of a pure function under study, with its inputs

vars == <<now, projRoot, stray, dir, bin, proc, started, pure>>

(***************************************************************************)
(* Bounds of the model.                                                    *)
(***************************************************************************)
MaxTime == 2        \* the clock stops ticking here
MaxStarted == 2     \* invocations (or direct calls) per behaviour

(* consts::MAX_CACHE_AGE_MS: one week, which is one tick of this clock.     *)
MAX_CACHE_AGE_MS == 1

Procs == {"A", "B"}
Ids == {"id1", "id2"}            \* identity tokens = names under <cache>/projects
UserDir == "user"                \* the directory named by --pkg-path
Dirs == Ids \cup {UserDir}
ManiTexts == {"m1", "m2"}        \* synthesized Cargo.toml texts
ScriptTexts == {"s1", "s2"}      \* synthesized <safe_name>.rs texts
FileNames == {"mani", "src"}

(***************************************************************************)
(* Files and directories.                                                  *)
(***************************************************************************)
NoFile == [ex |-> FALSE, c |-> "", t |-> 0]
MkFile(c, t) == [ex |-> TRUE, c |-> c, t |-> t]

NoMetaRec == [mh |-> "", sh |-> ""]
NoMeta == [ex |-> FALSE, c |-> NoMetaRec, t |-> 0]
MkMeta(m, t) == [ex |-> TRUE, c |-> m, t |-> t]

(* tmps: the invocations holding a NamedTempFile inside the directory.     *)
NoDir == [ex |-> FALSE, t |-> 0, mani |-> NoFile, src |-> NoFile,
          meta |-> NoMeta, tmps |-> {}]
EmptyDir(t) == [NoDir EXCEPT !.ex = TRUE, !.t = t]

(* Option<&str> *)
None == [some |-> FALSE, v |-> ""]
Some(v) == [some |-> TRUE, v |-> v]

(* hash_str: SHA-1 of the text as lowercase hex (collision free here).     *)
hash_str(s) == "sha1(" \o s \o ")"

(***************************************************************************)
(* The state of one invocation.                                            *)
(***************************************************************************)
NoArgs == [id |-> "id1", mani |-> "m1", src |-> "s1", script |-> FALSE,
           force |-> FALSE, clear |-> FALSE, pkg |-> FALSE, kind |-> "Normal",
           genonly |-> FALSE]

(* An operation of the operating system either succeeds or fails (disk    *)
(* full, permission denied, no such program, ...).                         *)
IoResults == {"ok", "fail"}

(* One call of overwrite_file / write_if_changed: its arguments, where to  *)
(* continue, its result r; pre and wrote record what the call found and    *)
(* whether it modified the target.                                         *)
NoCall == [fn |-> "none", d |-> UserDir, f |-> "src", c |-> "", h |-> None,
           ret |-> "idle", pre |-> NoFile, wrote |-> FALSE,
           r |-> "none"]
NoLast == [fn |-> "none", d |-> UserDir, f |-> "src", c |-> "", h |-> None,
           pre |-> NoFile, post |-> NoFile, wrote |-> FALSE, r |-> "none"]

(* One pass of clean_cache: its argument (max0: max_age = 0), cutoff, the  *)
(* entries read_dir still has to yield, and a record of what it did.       *)
NoGc == [max0 |-> FALSE, cutoff |-> 0, todo |-> {}, listed |-> {},
         seen |-> {}, bad |-> {}, log |-> {}, ret |-> "idle", r |-> "none"]

(* InputAction (pd = pkg_path, cache = using_cache, force = force_compile, *)
(* old = old_metadata, meta = metadata) and the outcome of the invocation. *)
NoOldMeta == [some |-> FALSE, v |-> NoMetaRec]

(* ExitStatus::code(): the exit code of a child, none when a signal ended  *)
(* it. In out, child is the status of the toolchain subprocess, ret the    *)
(* value try_main returns inside Ok, code the exit code of the process.    *)
NoExit == [some |-> FALSE, v |-> 0]
Exited(c) == [some |-> TRUE, v |-> c]
NoAct == [pd |-> UserDir, cache |-> FALSE, force |-> FALSE, execute |-> FALSE,
          old |-> NoOldMeta, meta |-> NoMetaRec]
NoOut == [res |-> "none", main |-> "none", gen |-> "none", hadDir |-> FALSE, cleaned |-> FALSE,
          spawned |-> 0, fresh |-> FALSE, rebuilt |-> FALSE,
          readMissing |-> FALSE, gcRan |-> FALSE, noCache |-> FALSE,
          faults |-> {}, child |-> NoExit, ret |-> 0, code |-> 0]

(* The pure functions of the program are applied to inputs of their own;  *)
(* pure holds the call being looked at, and nothing while invocations run. *)
NoPure == [fn |-> "none"]

IdleProc == [pc |-> "idle", args |-> NoArgs, call |-> NoCall, last |-> NoLast,
             act |-> NoAct, gc |-> NoGc, out |-> NoOut]

FileAt(d, f) == IF f = "mani" THEN dir[d].mani ELSE dir[d].src

PutFile(d, f, file) ==
    IF f = "mani"
    THEN [dir EXCEPT ![d].mani = file, ![d].t = now]
    ELSE [dir EXCEPT ![d].src = file, ![d].t = now]

Finish(p, r) ==
    [proc EXCEPT ![p].pc = proc[p].call.ret, ![p].call.r = r]

(* The invocation notes which of its own operations failed.                *)
Faulted(pr, p, what) == [pr EXCEPT ![p].out.faults = @ \cup {what}]

(***************************************************************************)
(* overwrite_file(path, content, hash)                src/src/main.rs:1072 *)
(***************************************************************************)

(* A variant that trusts the file on disk instead of the previous hash.    *)
OverwriteCompareByContent(p) ==
    LET k == proc[p].call
        cur == FileAt(k.d, k.f)
    IN
    /\ proc[p].pc = "ow_hash"
    /\ \E io \in IoResults :
          IF dir[k.d].ex /\ cur.ex /\ cur.c = k.c
          THEN /\ proc' = Finish(p, "Same")
               /\ dir' = dir
          ELSE IF ~dir[k.d].ex
          THEN /\ proc' = Finish(p, "Err")
               /\ dir' = dir
          ELSE IF io = "fail"
          THEN /\ proc' = Faulted(Finish(p, "Err"), p, k.f)
               /\ dir' = dir
          ELSE /\ proc' = [proc EXCEPT ![p].pc = "ow_persist"]
               /\ dir' = [dir EXCEPT ![k.d].tmps = @ \cup {p}, ![k.d].t = now]
    /\ UNCHANGED <<now, projRoot, stray, bin, started, pure>>

(* The previous hash decides: Same without touching the disk when it       *)
(* equals the hash of the new content; otherwise a NamedTempFile is        *)
(* created next to the target, written and flushed, which can fail.        *)
OverwriteCompare(p) ==
    LET k == proc[p].call IN
    /\ proc[p].pc = "ow_hash"
    /\ \E io \in IoResults :
          IF Some(hash_str(k.c)) = k.h
          THEN /\ proc' = Finish(p, "Same")
               /\ dir' = dir
          ELSE IF ~dir[k.d].ex
          THEN /\ proc' = Finish(p, "Err")
               /\ dir' = dir
          ELSE IF io = "fail"
          THEN /\ proc' = Faulted(Finish(p, "Err"), p, k.f)
               /\ dir' = dir
          ELSE /\ proc' = [proc EXCEPT ![p].pc = "ow_persist"]
               /\ dir' = [dir EXCEPT ![k.d].tmps = @ \cup {p}, ![k.d].t = now]
    /\ UNCHANGED <<now, projRoot, stray, bin, started, pure>>

(* temp_file.persist(path): one rename; it fails when the temporary file   *)
(* is gone, that is when the directory was removed in the meantime.        *)
OverwritePersist(p) ==
    LET k == proc[p].call IN
    /\ proc[p].pc = "ow_persist"
    /\ IF dir[k.d].ex /\ p \in dir[k.d].tmps
       THEN /\ dir' = [PutFile(k.d, k.f, MkFile(k.c, now))
                          EXCEPT ![k.d].tmps = @ \ {p}]
            /\ proc' = [Finish(p, "Changed") EXCEPT ![p].call.wrote = TRUE]
       ELSE /\ dir' = dir
            /\ proc' = Finish(p, "Err")
    /\ UNCHANGED <<now, projRoot, stray, bin, started, pure>>

(***************************************************************************)
(* write_if_changed(path, new)                     src/src/util/mod.rs:7   *)
(***************************************************************************)

(* read_to_string: a write is needed when the file cannot be read or       *)
(* holds something else.                                                   *)
WriteIfChangedRead(p) ==
    LET k == proc[p].call
        cur == FileAt(k.d, k.f)
        write_needed == IF dir[k.d].ex /\ cur.ex THEN cur.c # k.c ELSE TRUE
    IN
    /\ proc[p].pc = "wic_read"
    /\ proc' = IF write_needed
               THEN [proc EXCEPT ![p].pc = "wic_create"]
               ELSE Finish(p, "Ok")
    /\ UNCHANGED <<now, projRoot, stray, dir, bin, started, pure>>

(* std::fs::write, first half: File::create opens the target itself with   *)
(* create + truncate, which can fail.                                      *)
WriteIfChangedCreate(p) ==
    LET k == proc[p].call IN
    /\ proc[p].pc = "wic_create"
    /\ \E io \in IoResults :
          IF dir[k.d].ex /\ io = "ok"
          THEN /\ dir' = PutFile(k.d, k.f, MkFile("", now))
               /\ proc' = [proc EXCEPT ![p].pc = "wic_write",
                                       ![p].call.wrote = TRUE]
          ELSE /\ dir' = dir
               /\ proc' = Faulted(Finish(p, "Err"), p, k.f)
    /\ UNCHANGED <<now, projRoot, stray, bin, started, pure>>

(* std::fs::write, second half: write_all of the new text.                 *)
WriteIfChangedWrite(p) ==
    LET k == proc[p].call IN
    /\ proc[p].pc = "wic_write"
    /\ IF dir[k.d].ex
       THEN dir' = PutFile(k.d, k.f, MkFile(k.c, now))
       ELSE dir' = dir
    /\ proc' = Finish(p, "Ok")
    /\ UNCHANGED <<now, projRoot, stray, bin, started, pure>>

(***************************************************************************)
(* The clock.                                                              *)
(***************************************************************************)
Tick ==
    /\ now < MaxTime
    /\ now' = now + 1
    /\ UNCHANGED <<projRoot, stray, dir, bin, proc, started, pure>>

(***************************************************************************)
(* SpecFile: a caller applies the two writers to one path, with every      *)
(* content and every previous hash, and may be killed between two steps.   *)
(***************************************************************************)
HashArgs == {None} \cup {Some(hash_str(c)) : c \in ScriptTexts}

CallOverwriteFile(p, c, h) ==
    /\ proc[p].pc = "idle"
    /\ started < MaxStarted
    /\ started' = started + 1
    /\ proc' = [proc EXCEPT ![p].pc = "ow_hash",
                   ![p].call = [NoCall EXCEPT !.fn = "overwrite_file",
                                   !.c = c, !.h = h, !.ret = "returned",
                                   !.pre = FileAt(UserDir, "src")]]
    /\ UNCHANGED <<now, projRoot, stray, dir, bin, pure>>

CallWriteIfChanged(p, c) ==
    /\ proc[p].pc = "idle"
    /\ started < MaxStarted
    /\ started' = started + 1
    /\ proc' = [proc EXCEPT ![p].pc = "wic_read",
                   ![p].call = [NoCall EXCEPT !.fn = "write_if_changed",
                                   !.c = c, !.ret = "returned",
                                   !.pre = FileAt(UserDir, "src")]]
    /\ UNCHANGED <<now, projRoot, stray, dir, bin, pure>>

Returned(p) ==
    LET k == proc[p].call IN
    /\ proc[p].pc = "returned"
    /\ proc' = [proc EXCEPT ![p].pc = "idle", ![p].call = NoCall,
                   ![p].last = [fn |-> k.fn, d |-> k.d, f |-> k.f, c |-> k.c,
                                h |-> k.h, pre |-> k.pre,
                                post |-> FileAt(k.d, k.f),
                                wrote |-> k.wrote, r |-> k.r]]
    /\ UNCHANGED <<now, projRoot, stray, dir, bin, started, pure>>

(* The caller is killed in the middle of a call (power loss, SIGKILL).     *)
Killed(p) ==
    /\ proc[p].pc \in {"ow_persist", "wic_create", "wic_write"}
    /\ proc' = [proc EXCEPT ![p] = IdleProc]
    /\ UNCHANGED <<now, projRoot, stray, dir, bin, started, pure>>

InitFile ==
    /\ now = MAX_CACHE_AGE_MS
    /\ projRoot = FALSE
    /\ stray = FALSE
    /\ bin = [i \in Ids |-> NoFile]
    /\ \E f \in {NoFile} \cup {MkFile(c, MAX_CACHE_AGE_MS - 1) : c \in ScriptTexts} :
          dir = [d \in Dirs |->
                    IF d = UserDir
                    THEN [EmptyDir(MAX_CACHE_AGE_MS - 1) EXCEPT !.src = f]
                    ELSE NoDir]
    /\ proc = [p \in Procs |-> IdleProc]
    /\ started = 0
    /\ pure = NoPure

NextFile ==
    \/ \E c \in ScriptTexts, h \in HashArgs : CallOverwriteFile("A", c, h)
    \/ \E c \in ScriptTexts : CallWriteIfChanged("A", c)
    \/ OverwriteCompare("A")
    \/ OverwritePersist("A")
    \/ WriteIfChangedRead("A")
    \/ WriteIfChangedCreate("A")
    \/ WriteIfChangedWrite("A")
    \/ Returned("A")
    \/ Killed("A")
    \/ Tick

SpecFile == InitFile /\ [][NextFile]_vars

(***************************************************************************)
(* try_main                                         src/src/main.rs:306    *)
(***************************************************************************)
(* decide_action_for: the explicit directory verbatim and not owned, or    *)
(* <cache>/projects/<id> and owned.                                        *)
PkgPath(a) == IF a.pkg THEN UserDir ELSE a.id
UsingCache(a) == ~a.pkg

(* decide_action_for: test and bench override the user's force flag.       *)
ForceCompile(a) == IF a.kind = "Normal" THEN a.force ELSE FALSE

(* get_pkg_metadata: the metadata file of the package directory, if any.   *)
GetPkgMetadata(d) ==
    IF dir[d].ex /\ dir[d].meta.ex
    THEN [some |-> TRUE, v |-> dir[d].meta.c]
    ELSE NoOldMeta

(* A variant of main that reports every failure with the same code.        *)
ExitCodeFlat(res, ret) ==
    IF res = "ok" THEN 0 ELSE 1

(* main: Err(_) exits with 1, Ok(code) with code (Ok(0) by returning).     *)
ExitCode(res, ret) ==
    IF res = "err" THEN 1 ELSE ret

ExitWith(p, res) ==
    [proc EXCEPT ![p].pc = "done", ![p].out.res = res, ![p].call = NoCall,
                 ![p].out.code = ExitCode(res, proc[p].out.ret)]

Running(p) == proc[p].pc \notin {"idle", "done"}

(* A new process: parse_args, then --clear-cache first.                    *)
Start(p, a) ==
    /\ ~Running(p)
    /\ started < MaxStarted
    /\ started' = started + 1
    /\ proc' = [proc EXCEPT ![p] =
                   [IdleProc EXCEPT
                      !.pc = IF a.clear THEN "cc_start" ELSE "input",
                      !.args = a,
                      !.gc = [NoGc EXCEPT !.max0 = TRUE, !.ret = "after_clear"],
                      !.out = [NoOut EXCEPT !.res = "running",
                                  !.noCache = ~projRoot]]]
    /\ UNCHANGED <<now, projRoot, stray, dir, bin, pure>>

(* clean_cache(0)?; without a script the invocation ends here.             *)
AfterClear(p) ==
    /\ proc[p].pc = "after_clear"
    /\ proc' = IF proc[p].gc.r = "Err" THEN ExitWith(p, "err")
               ELSE IF ~proc[p].args.script THEN ExitWith(p, "ok")
               ELSE [proc EXCEPT ![p].pc = "input"]
    /\ UNCHANGED <<now, projRoot, stray, dir, bin, started, pure>>

(* find_script and read_to_string.                                         *)
ReadInput(p) ==
    /\ proc[p].pc = "input"
    /\ \E io \in IoResults :
          proc' = IF io = "fail" THEN Faulted(ExitWith(p, "err"), p, "input")
                  ELSE [proc EXCEPT ![p].pc = "decide"]
    /\ UNCHANGED <<now, projRoot, stray, dir, bin, started, pure>>

(* A variant that loads the previous metadata for test and bench too.      *)
DecideActionForAnyKind(p) ==
    LET a == proc[p].args
        pd == PkgPath(a)
        consult == ~a.genonly
    IN
    /\ proc[p].pc = "decide"
    /\ \E split \in IoResults :
       proc' = IF split = "fail" THEN Faulted(ExitWith(p, "err"), p, "manifest")
               ELSE [proc EXCEPT
                       ![p].pc = "mkdir",
                       ![p].act = [pd |-> pd,
                                   cache |-> UsingCache(a),
                                   force |-> ForceCompile(a),
                                   execute |-> ~a.genonly,
                                   old |-> IF consult THEN GetPkgMetadata(pd)
                                                      ELSE NoOldMeta,
                                   meta |-> [mh |-> hash_str(a.mani),
                                             sh |-> hash_str(a.src)]]]
    /\ UNCHANGED <<now, projRoot, stray, dir, bin, started, pure>>

(* decide_action_for: split_input may fail; the previous metadata is       *)
(* loaded only for a normal build that is not --gen-pkg-only.              *)
DecideActionFor(p) ==
    LET a == proc[p].args
        pd == PkgPath(a)
        consult == ~a.genonly /\ a.kind = "Normal"
    IN
    /\ proc[p].pc = "decide"
    /\ \E split \in IoResults :
       proc' = IF split = "fail" THEN Faulted(ExitWith(p, "err"), p, "manifest")
               ELSE [proc EXCEPT
                       ![p].pc = "mkdir",
                       ![p].act = [pd |-> pd,
                                   cache |-> UsingCache(a),
                                   force |-> ForceCompile(a),
                                   execute |-> ~a.genonly,
                                   old |-> IF consult THEN GetPkgMetadata(pd)
                                                      ELSE NoOldMeta,
                                   meta |-> [mh |-> hash_str(a.mani),
                                             sh |-> hash_str(a.src)]]]
    /\ UNCHANGED <<now, projRoot, stray, dir, bin, started, pure>>

(***************************************************************************)
(* gen_pkg_and_compile                              src/src/main.rs:508    *)
(***************************************************************************)
OverwriteCall(p, f, c, h, ret) ==
    [NoCall EXCEPT !.fn = "overwrite_file", !.d = proc[p].act.pd, !.f = f,
                   !.c = c, !.h = h, !.ret = ret,
                   !.pre = FileAt(proc[p].act.pd, f)]

(* fs::create_dir_all(pkg_path), then the manifest is handed to            *)
(* overwrite_file with the manifest hash of the previous metadata.         *)
CreatePkgDir(p) ==
    LET a == proc[p].args
        x == proc[p].act
    IN
    /\ proc[p].pc = "mkdir"
    /\ \E io \in IoResults :
       IF io = "fail"
       THEN /\ proc' = [Faulted(ExitWith(p, "err"), p, "mkdir")
                           EXCEPT ![p].out.gen = "failed"]
            /\ UNCHANGED <<dir, projRoot>>
       ELSE /\ dir' = IF dir[x.pd].ex THEN dir
                      ELSE [dir EXCEPT ![x.pd] = EmptyDir(now)]
            /\ projRoot' = (projRoot \/ x.cache)
            /\ proc' = [proc EXCEPT
                          ![p].pc = "ow_hash",
                          ![p].out.hadDir = dir[x.pd].ex,
                          ![p].call = OverwriteCall(p, "mani", a.mani,
                                         IF x.old.some THEN Some(x.old.v.mh)
                                                       ELSE None,
                                         "after_mani")]
    /\ UNCHANGED <<now, stray, bin, started, pure>>

(* A variant that hands over the previous script hash even when a          *)
(* recompile is forced.                                                    *)
AfterManifestKeepHash(p) ==
    LET a == proc[p].args
        x == proc[p].act
    IN
    /\ proc[p].pc = "after_mani"
    /\ proc' = IF proc[p].call.r = "Err"
               THEN [proc EXCEPT ![p].pc = "cleanup"]
               ELSE [proc EXCEPT
                       ![p].pc = "ow_hash",
                       ![p].act.meta.mh = IF proc[p].call.r = "Changed"
                                          THEN hash_str(proc[p].call.c) ELSE @,
                       ![p].call = OverwriteCall(p, "src", a.src,
                                      IF x.old.some THEN Some(x.old.v.sh)
                                      ELSE None,
                                      "after_src")]
    /\ UNCHANGED <<now, projRoot, stray, dir, bin, started, pure>>

(* The script is handed to overwrite_file with the script hash of the      *)
(* previous metadata, or with no hash when a recompile is forced.          *)
AfterManifest(p) ==
    LET a == proc[p].args
        x == proc[p].act
    IN
    /\ proc[p].pc = "after_mani"
    /\ proc' = IF proc[p].call.r = "Err"
               THEN [proc EXCEPT ![p].pc = "cleanup"]
               ELSE [proc EXCEPT
                       ![p].pc = "ow_hash",
                       ![p].act.meta.mh = IF proc[p].call.r = "Changed"
                                          THEN hash_str(proc[p].call.c) ELSE @,
                       ![p].call = OverwriteCall(p, "src", a.src,
                                      IF x.force THEN None
                                      ELSE IF x.old.some THEN Some(x.old.v.sh)
                                      ELSE None,
                                      "after_src")]
    /\ UNCHANGED <<now, projRoot, stray, dir, bin, started, pure>>

AfterScript(p) ==
    /\ proc[p].pc = "after_src"
    /\ proc' = IF proc[p].call.r = "Err"
               THEN [proc EXCEPT ![p].pc = "cleanup"]
               ELSE [proc EXCEPT
                       ![p].pc = "write_meta",
                       ![p].act.meta.sh = IF proc[p].call.r = "Changed"
                                          THEN hash_str(proc[p].call.c) ELSE @]
    /\ UNCHANGED <<now, projRoot, stray, dir, bin, started, pure>>

(* A variant that carries on to the toolchain when the metadata cannot be  *)
(* written.                                                                *)
WritePkgMetadataOrCarryOn(p) ==
    LET x == proc[p].act IN
    /\ proc[p].pc = "write_meta"
    /\ \E io \in IoResults :
       IF dir[x.pd].ex /\ io = "ok"
       THEN /\ dir' = [dir EXCEPT ![x.pd].meta = MkMeta(x.meta, now),
                                  ![x.pd].t = now]
            /\ proc' = [proc EXCEPT ![p].pc = "run", ![p].out.gen = "ok"]
       ELSE /\ dir' = dir
            /\ proc' = Faulted([proc EXCEPT ![p].pc = "run"], p, "meta")
    /\ UNCHANGED <<now, projRoot, stray, bin, started, pure>>

(* write_pkg_metadata (temporary file + persist), then cleanup_dir is      *)
(* disarmed.                                                               *)
WritePkgMetadata(p) ==
    LET x == proc[p].act IN
    /\ proc[p].pc = "write_meta"
    /\ \E io \in IoResults :
       IF dir[x.pd].ex /\ io = "ok"
       THEN /\ dir' = [dir EXCEPT ![x.pd].meta = MkMeta(x.meta, now),
                                  ![x.pd].t = now]
            /\ proc' = [proc EXCEPT ![p].pc = "run", ![p].out.gen = "ok"]
       ELSE /\ dir' = dir
            /\ proc' = IF dir[x.pd].ex
                       THEN Faulted([proc EXCEPT ![p].pc = "cleanup"], p, "meta")
                       ELSE [proc EXCEPT ![p].pc = "cleanup"]
    /\ UNCHANGED <<now, projRoot, stray, bin, started, pure>>

(* A variant of the cleanup that does not look at using_cache.             *)
CleanupDirAlways(p) ==
    LET x == proc[p].act IN
    /\ proc[p].pc = "cleanup"
    /\ dir' = [dir EXCEPT ![x.pd] = NoDir]
    /\ proc' = [ExitWith(p, "err") EXCEPT ![p].out.gen = "failed",
                                           ![p].out.cleaned = TRUE]
    /\ UNCHANGED <<now, projRoot, stray, bin, started, pure>>

(* cleanup_dir, the armed Defer of gen_pkg_and_compile: remove_dir_all of  *)
(* the package directory when it is in the cache; then the error returns.  *)
CleanupDir(p) ==
    LET x == proc[p].act IN
    /\ proc[p].pc = "cleanup"
    /\ dir' = IF x.cache THEN [dir EXCEPT ![x.pd] = NoDir] ELSE dir
    /\ proc' = [ExitWith(p, "err") EXCEPT ![p].out.gen = "failed",
                                           ![p].out.cleaned = x.cache]
    /\ UNCHANGED <<now, projRoot, stray, bin, started, pure>>

(***************************************************************************)
(* The toolchain: `cargo run|test|bench --manifest-path <pkg>/Cargo.toml   *)
(* --target-dir <cache>/binaries`, one subprocess that builds what is      *)
(* stale and then executes.                                                *)
(***************************************************************************)
Fresh(b, d) == b.ex /\ d.ex /\ d.mani.ex /\ d.src.ex
                    /\ b.t >= d.mani.t /\ b.t >= d.src.t

(* How the subprocess can go: it cannot be spawned, the build fails, the   *)
(* built program exits non-zero or is ended by a signal, or all is well.   *)
CargoResults == {"ok", "spawn_fails", "build_fails", "exit_nonzero",
                 "signalled"}

(* The non-zero exit codes a child is seen to exit with.                   *)
ChildCodes == {1, 2}

Readable(d) == d.ex /\ d.mani.ex /\ d.src.ex

(* cmd.status(): Err when the spawn fails, else the child's exit code.     *)
CargoExit(p, o) ==
    LET a == proc[p].args
        d == dir[proc[p].act.pd]
    IN
    IF o = "spawn_fails" THEN "err"
    ELSE IF ~Readable(d) THEN "child"
    ELSE IF o = "build_fails" /\ ~Fresh(bin[a.id], d) THEN "child"
    ELSE IF o \in {"exit_nonzero", "signalled"} THEN "child"
    ELSE "ok"

(* st.code() of the subprocess: 0 when all went well, none when a signal   *)
(* ended it, else the non-zero code c it exited with.                      *)
ChildStatus(p, o, c) ==
    IF CargoExit(p, o) = "ok" THEN Exited(0)
    ELSE IF o = "signalled" THEN NoExit
    ELSE Exited(c)

(* Option::unwrap_or                                                       *)
unwrap_or(opt, default) == IF opt.some THEN opt.v ELSE default

(* The toolchain rebuilds the binary of a normal run when it is missing or *)
(* older than the manifest or the source.                                  *)
CargoBuilds(p, o) ==
    LET a == proc[p].args
        d == dir[proc[p].act.pd]
    IN
    /\ o \notin {"spawn_fails", "build_fails"}
    /\ a.kind = "Normal"
    /\ Readable(d)
    /\ ~Fresh(bin[a.id], d)

(* The invocation after the subprocess was (spawn) or was not run.         *)
AfterRun(p, spawn, o, c) ==
    LET a == proc[p].args
        d == dir[proc[p].act.pd]
        res == IF spawn THEN CargoExit(p, o) ELSE "ok"
        status == IF spawn /\ o # "spawn_fails" THEN ChildStatus(p, o, c)
                  ELSE NoExit
    IN
    [proc EXCEPT
        ![p].pc = "defer_gc",
        ![p].out.res = res,
        ![p].out.main = res,
        ![p].out.child = status,
        ![p].out.ret = IF spawn /\ o # "spawn_fails"
                       THEN unwrap_or(status, 1) ELSE 0,
        ![p].out.spawned = IF spawn THEN 1 ELSE 0,
        ![p].out.fresh = Fresh(bin[a.id], d),
        ![p].out.readMissing = spawn /\ o # "spawn_fails" /\ ~Readable(d),
        ![p].out.rebuilt = spawn /\ CargoBuilds(p, o),
        ![p].out.faults = IF spawn /\ res # "ok" /\ Readable(d)
                          THEN @ \cup {o} ELSE @]

BinAfterRun(p, spawn, o) ==
    LET a == proc[p].args
        d == dir[proc[p].act.pd]
    IN
    IF spawn /\ CargoBuilds(p, o)
    THEN [bin EXCEPT ![a.id] = MkFile(d.mani.c \o "+" \o d.src.c, now)]
    ELSE bin

(* A variant that makes the freshness decision itself and skips the        *)
(* toolchain when the binary is at least as new as source and manifest.    *)
RunToolchainUnlessFresh(p) ==
    LET a == proc[p].args
        x == proc[p].act
        fresh == a.kind = "Normal" /\ ~x.force /\ Fresh(bin[a.id], dir[x.pd])
    IN
    /\ proc[p].pc = "run"
    /\ \E o \in CargoResults, c \in ChildCodes :
          /\ bin' = BinAfterRun(p, x.execute /\ ~fresh, o)
          /\ proc' = AfterRun(p, x.execute /\ ~fresh, o, c)
    /\ UNCHANGED <<now, projRoot, stray, dir, started, pure>>

(* try_main after gen_pkg_and_compile: when action.execute, the command is *)
(* built and run to completion, and its exit code becomes the result.      *)
RunToolchain(p) ==
    LET x == proc[p].act IN
    /\ proc[p].pc = "run"
    /\ \E o \in CargoResults, c \in ChildCodes :
          /\ bin' = BinAfterRun(p, x.execute, o)
          /\ proc' = AfterRun(p, x.execute, o, c)
    /\ UNCHANGED <<now, projRoot, stray, dir, started, pure>>

(***************************************************************************)
(* clean_cache(max_age)                             src/src/main.rs:435    *)
(***************************************************************************)
GcReturn(p, r) == [proc EXCEPT ![p].pc = proc[p].gc.ret, ![p].gc.r = r]

MaxAge(g) == IF g.max0 THEN 0 ELSE MAX_CACHE_AGE_MS

(* max_age = 0 removes <cache>/binaries (a failure is only logged); then   *)
(* the cutoff is taken and <cache>/projects is listed.                     *)
CleanCacheStart(p) ==
    LET g == proc[p].gc
        entries == {d \in Ids : dir[d].ex} \cup (IF stray THEN {"stray"} ELSE {})
    IN
    /\ proc[p].pc = "cc_start"
    /\ bin' = IF g.max0 THEN [i \in Ids |-> NoFile] ELSE bin
    /\ proc' = IF ~projRoot
               THEN GcReturn(p, "Err")
               ELSE [proc EXCEPT ![p].pc = "cc_loop",
                                 ![p].gc.cutoff = now - MaxAge(g),
                                 ![p].gc.todo = entries,
                                 ![p].gc.listed = entries]
    /\ UNCHANGED <<now, projRoot, stray, dir, started, pure>>

(* What the pass notes about one entry it examined.                        *)
GcNote(e, isDir, d, remove, removed) ==
    [e |-> e, isDir |-> isDir, dirEx |-> d.ex, dirT |-> d.t,
     metaEx |-> d.meta.ex, metaT |-> d.meta.t,
     remove |-> remove, removed |-> removed]

(* The entry e examined: removed, if it is to be and remove_dir_all works. *)
Examined(p, e, isDir, d, remove, removed) ==
    LET noted == [proc EXCEPT
                     ![p].gc.todo = @ \ {e},
                     ![p].gc.seen = @ \cup {e},
                     ![p].gc.log = @ \cup {GcNote(e, isDir, d, remove, removed)}]
    IN
    IF remove /\ d.ex /\ ~removed THEN Faulted(noted, p, "gc_remove") ELSE noted

(* A variant that goes by the directory's own modification time.           *)
CleanCacheEntryByDirMtime(p) ==
    LET g == proc[p].gc IN
    /\ proc[p].pc = "cc_loop"
    /\ \E e \in g.todo, io \in IoResults, rm \in IoResults :
          IF io = "fail"
          THEN /\ proc' = Faulted([GcReturn(p, "Err") EXCEPT ![p].gc.bad = {e}],
                                  p, "gc_entry")
               /\ dir' = dir
          ELSE LET isDir == e # "stray"
                   d == IF isDir THEN dir[e] ELSE NoDir
                   remove == isDir /\ d.t <= g.cutoff
                   removed == remove /\ d.ex /\ rm = "ok"
               IN
               /\ dir' = IF removed THEN [dir EXCEPT ![e] = NoDir] ELSE dir
               /\ proc' = Examined(p, e, isDir, d, remove, removed)
    /\ UNCHANGED <<now, projRoot, stray, bin, started, pure>>

(* One turn of the loop over read_dir: an unreadable entry returns the     *)
(* error (child?); a plain file is skipped; a directory is removed when    *)
(* its metadata file cannot be opened or was last modified at or before    *)
(* the cutoff; a failed remove_dir_all is only logged.                     *)
CleanCacheEntry(p) ==
    LET g == proc[p].gc IN
    /\ proc[p].pc = "cc_loop"
    /\ \E e \in g.todo, io \in IoResults, rm \in IoResults :
          IF io = "fail"
          THEN /\ proc' = Faulted([GcReturn(p, "Err") EXCEPT ![p].gc.bad = {e}],
                                  p, "gc_entry")
               /\ dir' = dir
          ELSE LET isDir == e # "stray"
                   d == IF isDir THEN dir[e] ELSE NoDir
                   metaOpen == d.ex /\ d.meta.ex
                   remove == isDir /\ (~metaOpen \/ d.meta.t <= g.cutoff)
                   removed == remove /\ d.ex /\ rm = "ok"
               IN
               /\ dir' = IF removed THEN [dir EXCEPT ![e] = NoDir] ELSE dir
               /\ proc' = Examined(p, e, isDir, d, remove, removed)
    /\ UNCHANGED <<now, projRoot, stray, bin, started, pure>>

CleanCacheDone(p) ==
    /\ proc[p].pc = "cc_loop"
    /\ proc[p].gc.todo = {}
    /\ proc' = GcReturn(p, "Ok")
    /\ UNCHANGED <<now, projRoot, stray, dir, bin, started, pure>>

(***************************************************************************)
(* The deferred pass of try_main and the end of the process.               *)
(***************************************************************************)

(* A variant whose closure does not look at clear_cache.                   *)
DeferredCleanAlways(p) ==
    /\ proc[p].pc = "defer_gc"
    /\ proc' = [proc EXCEPT ![p].pc = "cc_start",
                            ![p].gc = [NoGc EXCEPT !.ret = "exit"],
                            ![p].out.gcRan = TRUE]
    /\ UNCHANGED <<now, projRoot, stray, dir, bin, started, pure>>

(* _defer_clear runs when try_main returns, with the exit code or with the *)
(* error of the run step: clean_cache(MAX_CACHE_AGE_MS) unless the cache   *)
(* was cleared.                                                            *)
DeferredClean(p) ==
    /\ proc[p].pc = "defer_gc"
    /\ proc' = IF ~proc[p].args.clear
               THEN [proc EXCEPT ![p].pc = "cc_start",
                                 ![p].gc = [NoGc EXCEPT !.ret = "exit"],
                                 ![p].out.gcRan = TRUE]
               ELSE [proc EXCEPT ![p].pc = "exit"]
    /\ UNCHANGED <<now, projRoot, stray, dir, bin, started, pure>>

(* Defer: an error of the deferred function does not replace the result of *)
(* the function it was deferred in.                                        *)
DeferOutcome(res, r) == res

(* main: the exit code.                                                    *)
ProcessExit(p) ==
    /\ proc[p].pc = "exit"
    /\ proc' = ExitWith(p, DeferOutcome(proc[p].out.res, proc[p].gc.r))
    /\ UNCHANGED <<now, projRoot, stray, dir, bin, started, pure>>

(* The process is killed (SIGKILL, power loss): nothing deferred runs. Its *)
(* temporary file stays behind under a random name nothing looks at, so    *)
(* it is no longer tracked.                                                *)
Crash(p) ==
    /\ Running(p)
    /\ dir' = [d \in Dirs |-> [dir[d] EXCEPT !.tmps = @ \ {p}]]
    /\ proc' = [proc EXCEPT ![p] = [IdleProc EXCEPT !.pc = "done",
                                       !.args = proc[p].args,
                                       !.out.res = "killed"]]
    /\ UNCHANGED <<now, projRoot, stray, bin, started, pure>>

(* Time passes between invocations: one tick is half the cache age, far    *)
(* longer than an invocation.                                              *)
TickIdle ==
    /\ \A p \in Procs : ~Running(p)
    /\ Tick

(***************************************************************************)
(* Command lines (parse_args: the conflicts and requirements of clap).     *)
(***************************************************************************)
Kinds == {"Normal", "Test", "Bench"}
Texts == {<<"m1", "s1">>, <<"m1", "s2">>, <<"m2", "s2">>}

ValidArgs(a) ==
    /\ a.script \/ a.clear
    /\ a.force => a.script
    /\ a.pkg => (a.script /\ ~a.clear /\ ~a.force)
    /\ a.genonly => (a.script /\ ~a.force /\ a.kind = "Normal")
    /\ a.kind # "Normal" => ~a.force
    /\ ~a.script => a = [NoArgs EXCEPT !.clear = TRUE]
    /\ <<a.mani, a.src>> \in Texts

AllArgs ==
    {a \in [id : Ids, mani : ManiTexts, src : ScriptTexts, script : BOOLEAN,
            force : BOOLEAN, clear : BOOLEAN, pkg : BOOLEAN, kind : Kinds,
            genonly : BOOLEAN] : ValidArgs(a)}

(* The command lines Spec draws from: every valid combination of flags on  *)
(* one script, whose text changes between plain and forced runs (bench     *)
(* goes the way of test in every step modelled).                           *)
FirstText(a) == a.mani = "m1" /\ a.src = "s1"

PlainRun(a) ==
    /\ a.script /\ ~a.genonly /\ a.kind = "Normal" /\ ~a.pkg /\ ~a.clear

SeqArgs ==
    {a \in AllArgs :
        a.id = "id1" /\ a.kind # "Bench" /\ (FirstText(a) \/ PlainRun(a))}

(* The command lines SpecGc draws from: a plain run of either script and a *)
(* bare --clear-cache.                                                     *)
GcArgs ==
    {a \in AllArgs : FirstText(a) /\ ((PlainRun(a) /\ ~a.force) \/ ~a.script)}

Step(p) ==
    \/ AfterClear(p)
    \/ ReadInput(p)
    \/ DecideActionFor(p)
    \/ CreatePkgDir(p)
    \/ OverwriteCompare(p)
    \/ OverwritePersist(p)
    \/ AfterManifest(p)
    \/ AfterScript(p)
    \/ WritePkgMetadata(p)
    \/ CleanupDir(p)
    \/ RunToolchain(p)
    \/ DeferredClean(p)
    \/ CleanCacheStart(p)
    \/ CleanCacheEntry(p)
    \/ CleanCacheDone(p)
    \/ ProcessExit(p)
    \/ Crash(p)

Init ==
    /\ now = MAX_CACHE_AGE_MS
    /\ projRoot = FALSE
    /\ stray = FALSE
    /\ dir = [d \in Dirs |-> NoDir]
    /\ bin = [i \in Ids |-> NoFile]
    /\ proc = [p \in Procs |-> IdleProc]
    /\ started = 0
    /\ pure = NoPure

Next ==
    \/ \E a \in SeqArgs : Start("A", a)
    \/ Step("A")
    \/ TickIdle

Spec == Init /\ [][Next]_vars

(***************************************************************************)
(* SpecGc: invocations that find a cache others have filled: entries of    *)
(* every age, with and without a metadata file, and maybe a plain file.    *)
(***************************************************************************)
Times == 0 .. MAX_CACHE_AGE_MS

(* An entry as a finished invocation leaves it (t: when it last wrote the  *)
(* metadata), one whose manifest was rewritten since (dt), and one whose   *)
(* invocation was killed before the metadata was written.                  *)
EntryStates ==
    {NoDir}
    \cup {[EmptyDir(t) EXCEPT !.mani = MkFile("m1", t)] : t \in Times}
    \cup {[ex |-> TRUE, t |-> dt, mani |-> MkFile("m1", dt),
           src |-> MkFile("s1", t),
           meta |-> MkMeta([mh |-> hash_str("m1"), sh |-> hash_str("s1")], t),
           tmps |-> {}] : <<t, dt>> \in {x \in Times \X Times : x[1] <= x[2]}}

InitGc ==
    /\ now = MAX_CACHE_AGE_MS
    /\ projRoot = TRUE
    /\ stray \in BOOLEAN
    /\ \E e1 \in EntryStates, e2 \in EntryStates :
          dir = [d \in Dirs |-> IF d = "id1" THEN e1
                                ELSE IF d = "id2" THEN e2 ELSE NoDir]
    /\ bin = [i \in Ids |-> NoFile]
    /\ proc = [p \in Procs |-> IdleProc]
    /\ started = 0
    /\ pure = NoPure

NextGc ==
    \/ \E a \in GcArgs : Start("A", a)
    \/ Step("A")
    \/ TickIdle

SpecGc == InitGc /\ [][NextGc]_vars

(***************************************************************************)
(* SpecConc: two processes run the same script, unchanged, at once.        *)
(***************************************************************************)
ConcArgs == {a \in AllArgs : a.id = "id1" /\ FirstText(a) /\ PlainRun(a) /\ ~a.force}

StepConc(p) ==
    \/ ReadInput(p)
    \/ DecideActionFor(p)
    \/ CreatePkgDir(p)
    \/ OverwriteCompare(p)
    \/ OverwritePersist(p)
    \/ AfterManifest(p)
    \/ AfterScript(p)
    \/ WritePkgMetadata(p)
    \/ CleanupDir(p)
    \/ RunToolchain(p)
    \/ DeferredClean(p)
    \/ CleanCacheStart(p)
    \/ CleanCacheEntry(p)
    \/ CleanCacheDone(p)
    \/ ProcessExit(p)

NextConc ==
    \/ \E p \in Procs, a \in ConcArgs : Start(p, a)
    \/ \E p \in Procs : StepConc(p)
    \/ TickIdle

SpecConc == Init /\ [][NextConc]_vars

(***************************************************************************)
(* Pure functions are studied on their own: the program stands still.      *)
(***************************************************************************)
progVars == <<now, projRoot, stray, dir, bin, proc, started>>

ProgramAtRest ==
    /\ now = MAX_CACHE_AGE_MS
    /\ projRoot = FALSE
    /\ stray = FALSE
    /\ dir = [d \in Dirs |-> NoDir]
    /\ bin = [i \in Ids |-> NoFile]
    /\ proc = [p \in Procs |-> IdleProc]
    /\ started = 0

(***************************************************************************)
(* Input and Input::compute_id                      src/src/main.rs:891    *)
(***************************************************************************)
File(name, path, content, mtime) ==
    [kind |-> "File", name |-> name, path |-> path, content |-> content,
     mtime |-> mtime]
Expr(content, template) ==
    [kind |-> "Expr", content |-> content, template |-> template]
Loop(content, count) ==
    [kind |-> "Loop", content |-> content, count |-> count]

(* Path::to_string_lossy: the path as text, every invalid UTF-8 sequence   *)
(* replaced by U+FFFD. One of the paths used here is not valid UTF-8.      *)
to_string_lossy(path) ==
    IF path = "/a/x<ff>.rs" THEN "/a/x<U+FFFD>.rs" ELSE path

(* The bytes the closure hash_deps feeds to the hasher.                    *)
RECURSIVE hash_deps(_)
hash_deps(deps) ==
    IF deps = <<>> THEN ""
    ELSE "dep=" \o Head(deps)[1] \o "=" \o Head(deps)[2] \o ";"
            \o hash_deps(Tail(deps))

(* format!("{:x}", hasher.finalize()): the forty hexadecimal digits of the *)
(* SHA-1 of the bytes fed to the hasher (collision free here).             *)
sha1_hex(bytes) == "sha1(" \o bytes \o ")"

(* consts::ID_DIGEST_LEN_MAX: how many digits of the digest make the id.   *)
ID_DIGEST_LEN_MAX == 24

(* String::truncate: the first n characters.                               *)
truncate(digest, n) == [hex |-> digest, len |-> n]

(* A variant whose identity of a file also covers its content.             *)
compute_id_of_content(input, deps) ==
    CASE input.kind = "File" ->
            truncate(sha1_hex(to_string_lossy(input.path) \o input.content),
                     ID_DIGEST_LEN_MAX)
      [] input.kind = "Expr" ->
            truncate(sha1_hex(hash_deps(deps) \o "template:"
                        \o unwrap_or(input.template, "") \o ";"
                        \o input.content),
                     ID_DIGEST_LEN_MAX)
      [] input.kind = "Loop" ->
            truncate(sha1_hex(hash_deps(deps) \o "count:"
                        \o (IF input.count THEN "true;" ELSE "false;")
                        \o input.content),
                     ID_DIGEST_LEN_MAX)

compute_id(input, deps) ==
    CASE input.kind = "File" ->
            truncate(sha1_hex(to_string_lossy(input.path)),
                     ID_DIGEST_LEN_MAX)
      [] input.kind = "Expr" ->
            truncate(sha1_hex(hash_deps(deps) \o "template:"
                        \o unwrap_or(input.template, "") \o ";"
                        \o input.content),
                     ID_DIGEST_LEN_MAX)
      [] input.kind = "Loop" ->
            truncate(sha1_hex(hash_deps(deps) \o "count:"
                        \o (IF input.count THEN "true;" ELSE "false;")
                        \o input.content),
                     ID_DIGEST_LEN_MAX)

(* decide_action_for: input_id, computed over a list of dependencies that  *)
(* is always empty.                                                        *)
input_id(input) == compute_id(input, <<>>)

(* The inputs two invocations are given.                                   *)
Names == {"x", "y"}
Paths == {"/a/x.rs", "/b/x.rs", "/a/x<ff>.rs"}
Contents == {"c1", "c2"}
Mtimes == {1, 2}
Templates == {None, Some(""), Some("t1")}
Inputs ==
    {File(n, q, c, t) : n \in Names, q \in Paths, c \in Contents,
                        t \in Mtimes}
    \cup {Expr(c, t) : c \in Contents, t \in Templates}
    \cup {Loop(c, k) : c \in Contents, k \in BOOLEAN}

NoId == [hex |-> "", len |-> 0]

InitId ==
    /\ ProgramAtRest
    /\ \E a \in Inputs, b \in Inputs :
          pure = [fn |-> "compute_id", a |-> a, b |-> b,
                  ida |-> NoId, idb |-> NoId]

(* One invocation computes the id of its input ...                         *)
ComputeIdFirst ==
    /\ pure.ida = NoId
    /\ pure' = [pure EXCEPT !.ida = input_id(pure.a)]
    /\ UNCHANGED progVars

(* ... and a later one, in another process at another time, of its own.    *)
ComputeIdSecond ==
    /\ pure.ida # NoId
    /\ pure.idb = NoId
    /\ pure' = [pure EXCEPT !.idb = input_id(pure.b)]
    /\ UNCHANGED progVars

NextId ==
    \/ ComputeIdFirst
    \/ ComputeIdSecond
    \/ TickIdle

SpecId == InitId /\ [][NextId]_vars

(***************************************************************************)
(* merge_manifest(into_t, from_t)               src/src/manifest.rs:898    *)
(*                                                                         *)
(* A toml::Value is absent, a string, an array or a table; a manifest is a *)
(* table of the top-level keys, and a top-level table maps sub-keys to     *)
(* values whose text s is all that is looked at ("{a}" is a table).        *)
(***************************************************************************)
TopKeys == {"bin", "dependencies"}
SubKeys == {"x", "y"}

(* toml::value::Table iterates in the order of its keys.                   *)
KeyOrder == <<"bin", "dependencies">>

AbsentSub == [t |-> "absent", s |-> ""]
NoSubs == [j \in SubKeys |-> AbsentSub]
Absent == [t |-> "absent", s |-> "", tab |-> NoSubs]
Str(s) == [t |-> "str", s |-> s, tab |-> NoSubs]
Array(s) == [t |-> "array", s |-> s, tab |-> NoSubs]
Table(tab) == [t |-> "table", s |-> "", tab |-> tab]

(* A variant of Table::extend that merges two colliding tables into one.   *)
extend_deep(into, from) ==
    [j \in SubKeys |->
        IF from[j].t = "absent" THEN into[j]
        ELSE IF from[j].t = "table" /\ into[j].t = "table"
        THEN [t |-> "table", s |-> into[j].s \o "+" \o from[j].s]
        ELSE from[j]]

(* Table::extend: every entry of from is inserted, replacing what into     *)
(* held at its key.                                                        *)
extend(into, from) ==
    [j \in SubKeys |-> IF from[j].t = "absent" THEN into[j] ELSE from[j]]

MergeErr == [ok |-> FALSE, t |-> [k \in TopKeys |-> Absent]]
MergeOk(t) == [ok |-> TRUE, t |-> t]

(* A variant that refuses a table and a non-table at one key whichever     *)
(* side holds the table.                                                   *)
merge_value_strict(into_t, k, v) ==
    IF into_t[k].t # "absent" /\ (into_t[k].t = "table") # (v.t = "table")
    THEN MergeErr
    ELSE IF v.t = "table" /\ into_t[k].t = "table"
    THEN MergeOk([into_t EXCEPT ![k] = Table(extend(into_t[k].tab, v.tab))])
    ELSE MergeOk([into_t EXCEPT ![k] = v])

(* The body of the loop of merge_manifest for the entry (k, v) of from_t.  *)
merge_value(into_t, k, v) ==
    IF v.t = "table"
    THEN IF into_t[k].t = "absent"
         THEN MergeOk([into_t EXCEPT ![k] = v])
         ELSE IF into_t[k].t # "table"
         THEN MergeErr
         ELSE MergeOk([into_t EXCEPT
                          ![k] = Table(extend(into_t[k].tab, v.tab))])
    ELSE MergeOk([into_t EXCEPT ![k] = v])

(* The loop over the entries of from_t, in key order; the first error      *)
(* ends it.                                                                *)
RECURSIVE merge_from(_, _, _)
merge_from(into_t, from_t, keys) ==
    IF keys = <<>> THEN MergeOk(into_t)
    ELSE IF from_t[Head(keys)].t = "absent"
    THEN merge_from(into_t, from_t, Tail(keys))
    ELSE LET r == merge_value(into_t, Head(keys), from_t[Head(keys)]) IN
         IF r.ok THEN merge_from(r.t, from_t, Tail(keys)) ELSE r

merge_manifest(into_t, from_t) == merge_from(into_t, from_t, KeyOrder)

(* The manifests the merge is applied to: what the default holds is        *)
(* written "a", "[a]" and "{a}", what the fragment holds "b", "[b]" and    *)
(* "{b}".                                                                  *)
SubVals(s) == {AbsentSub, [t |-> "str", s |-> s],
               [t |-> "table", s |-> "{" \o s \o "}"]}
Values(s) == {Absent, Str(s), Array("[" \o s \o "]")}
                \cup {Table(tab) : tab \in [SubKeys -> SubVals(s)]}
Defaults == [TopKeys -> Values("a")]
Fragments == [TopKeys -> Values("b")]

InitMerge ==
    /\ ProgramAtRest
    /\ \E d \in Defaults, f \in Fragments :
          pure = [fn |-> "merge_manifest", into |-> d, from |-> f,
                  done |-> FALSE, res |-> MergeErr]

MergeManifest ==
    /\ pure.fn = "merge_manifest"
    /\ ~pure.done
    /\ pure' = [pure EXCEPT !.done = TRUE,
                            !.res = merge_manifest(pure.into, pure.from)]
    /\ UNCHANGED progVars

NextMerge == MergeManifest

SpecMerge == InitMerge /\ [][NextMerge]_vars

(***************************************************************************)
(* split_input for a script file                 src/src/manifest.rs:33    *)
(*                                                                         *)
(* A text is a sequence of pieces: "\n", " " and "\t" are single           *)
(* characters, every other piece of a script is a run of characters that   *)
(* neither starts with white space nor holds a newline. The regular        *)
(* expressions are modelled by what they match on such texts. No comment   *)
(* of the texts drawn has a margin of asterisks or an indentation          *)
(* (RE_MARGIN, RE_SPACE and n_leading_spaces find nothing to strip).       *)
(***************************************************************************)
Blank == {" ", "\t", "\n"}                       \* \s
DocOpeners == {"/*!", "//!", "///"}
Bracketed == {"[", "[dependencies]"}             \* pieces that begin with [
MainPrefixes == {"fn main(", "pub fn main(", "async fn main(",
                 "pub async fn main("}

Drop(s, n) == SubSeq(s, n + 1, Len(s))

(* The least i >= from with s[i] \in what, 0 when there is none.           *)
IndexFrom(s, from, what) ==
    LET hits == {i \in from .. Len(s) : s[i] \in what} IN
    IF hits = {} THEN 0 ELSE CHOOSE i \in hits : \A j \in hits : i <= j

(* str::lines: the text cut at its newlines, which are dropped; a last     *)
(* line without a newline counts, an empty rest does not.                  *)
RECURSIVE lines(_)
lines(s) ==
    IF s = <<>> THEN <<>>
    ELSE LET n == IndexFrom(s, 1, {"\n"}) IN
         IF n = 0 THEN <<s>>
         ELSE <<SubSeq(s, 1, n - 1)>> \o lines(Drop(s, n))

(* RE_SHEBANG  ^#![^\[].*?(\r\n|\n)  : where its match ends, 0 without a   *)
(* match. The class [^\[] takes any one character but [, a newline too;    *)
(* then the least run without a newline up to a newline.                   *)
RE_SHEBANG(s) ==
    IF Len(s) >= 2 /\ s[1] = "#!" /\ s[2] \notin Bracketed
    THEN IndexFrom(s, 3, {"\n"})
    ELSE 0

(* strip_shebang: the text after the match, and whether there was one.     *)
strip_shebang(s) ==
    IF RE_SHEBANG(s) > 0
    THEN [rest |-> Drop(s, RE_SHEBANG(s)), found |-> TRUE]
    ELSE [rest |-> s, found |-> FALSE]

(* A variant that takes a doc comment only at the very start of the text.  *)
RE_CRATE_COMMENT_at_start(s) ==
    IF s # <<>> /\ s[1] \in DocOpeners THEN 1 ELSE 0

(* RE_CRATE_COMMENT  (^\s*|^\#![^\[].*?(\r\n|\n))(/\*!|//(!|/))  : where   *)
(* its third group starts, 0 without a match: after any run of white       *)
(* space at the start of the text, or after one more shebang-like line.    *)
RE_CRATE_COMMENT(s) ==
    LET code == IndexFrom(s, 1, {s[i] : i \in 1 .. Len(s)} \ Blank)
        line == RE_SHEBANG(s)
    IN
    IF code > 0 /\ s[code] \in DocOpeners THEN code
    ELSE IF line > 0 /\ line < Len(s) /\ s[line + 1] \in DocOpeners
    THEN line + 1
    ELSE 0

(* The lines put together again, each ended by a newline.                  *)
RECURSIVE unlines(_)
unlines(ls) ==
    IF ls = <<>> THEN <<>> ELSE Head(ls) \o <<"\n">> \o unlines(Tail(ls))

(* extract_block: where the comment ends, RE_NESTING  /\*|\*/  counting    *)
(* the comments opened inside it; past the end of a text that never closes *)
(* it.                                                                     *)
RECURSIVE block_end(_, _, _)
block_end(s, i, depth) ==
    IF i > Len(s) THEN i
    ELSE IF s[i] \in {"/*", "/*!"} THEN block_end(s, i + 1, depth + 1)
    ELSE IF s[i] = "*/"
    THEN IF depth = 1 THEN i ELSE block_end(s, i + 1, depth - 1)
    ELSE block_end(s, i + 1, depth)

(* RE_SPACE  ^(\s+)  : where the white space a line starts with ends, 0    *)
(* when it starts with none.                                               *)
RE_SPACE(line) ==
    LET other == {i \in DOMAIN line : line[i] \notin Blank} IN
    IF other = {} THEN Len(line)
    ELSE (CHOOSE i \in other : \A j \in other : i <= j) - 1

min(a, b) == IF a <= b THEN a ELSE b

(* extract_comment::n_leading_spaces: the first n characters of the line,  *)
(* or all it has, are spaces.                                              *)
n_leading_spaces(line, n) ==
    \A i \in 1 .. min(n, Len(line)) : line[i] = " "

ExtractErr == [ok |-> FALSE, text |-> <<>>]

(* The loops of extract_block and extract_line from the indentation on.    *)
(* leading_space is fixed by the first line that starts with white space   *)
(* (0 stands for None, which unwrap_or(0) reads as 0); a line that does    *)
(* not start with that many spaces is an error, otherwise the line is      *)
(* pushed without them and with a newline.                                 *)
RECURSIVE strip_leading_space(_, _)
strip_leading_space(ls, leading_space) ==
    IF ls = <<>> THEN [ok |-> TRUE, text |-> <<>>]
    ELSE LET line == Head(ls)
             n == IF leading_space # 0 THEN leading_space ELSE RE_SPACE(line)
         IN
         IF ~n_leading_spaces(line, n) THEN ExtractErr
         ELSE LET rest == strip_leading_space(Tail(ls), n) IN
              IF ~rest.ok THEN ExtractErr
              ELSE [ok |-> TRUE,
                    text |-> Drop(line, min(n, Len(line))) \o <<"\n">>
                                \o rest.text]

(* extract_block(s), s the text after the opening marker: its lines up to  *)
(* the closing marker, the line of the marker cut before it. No line of    *)
(* the comments drawn here starts with the margin marker *.                *)
extract_block(s) ==
    LET e == block_end(s, 1, 1)
        body == SubSeq(s, 1, e - 1)
    IN
    strip_leading_space(
        lines(body)
            \o (IF e <= Len(s) /\ (body = <<>> \/ body[Len(body)] = "\n")
                THEN <<<<>>>> ELSE <<>>),
        0)

(* extract_line: the lines that RE_COMMENT  ^\s*//(!|/)  matches, without  *)
(* what it matched, up to the first line it does not match.                *)
RECURSIVE extract_line_of(_)
extract_line_of(ls) ==
    IF ls = <<>> THEN <<>>
    ELSE LET line == Head(ls)
             code == IndexFrom(line, 1, {line[i] : i \in 1 .. Len(line)}
                                            \ Blank)
         IN
         IF code > 0 /\ line[code] \in {"//!", "///"}
         THEN <<Drop(line, code)>> \o extract_line_of(Tail(ls))
         ELSE <<>>

extract_line(s) == strip_leading_space(extract_line_of(lines(s)), 0)

(* extract_comment(s): the text of the doc comment s starts with, or an    *)
(* error.                                                                  *)
extract_comment(s) ==
    IF s # <<>> /\ s[1] = "/*!" THEN extract_block(Drop(s, 1))
    ELSE IF s # <<>> /\ s[1] \in {"//!", "///"} THEN extract_line(s)
    ELSE ExtractErr

(* Fenced code blocks of Markdown: a line that opens one, by its info      *)
(* string, and the line that closes it. The fence is written with tildes,  *)
(* which Markdown reads like the three backquotes of the scripts' fences.  *)
Fences == {"~~~", "~~~cargo", "~~~Cargo", "~~~toml"}
CargoFences == {"~~~cargo", "~~~Cargo"}       \* info.to_lowercase() == "cargo"

NoText == [some |-> FALSE, v |-> <<>>]

(* scrape_markdown_manifest: the text events of the first fenced block     *)
(* whose info string is cargo; in is the block the parser is in.           *)
RECURSIVE scrape_lines(_, _, _)
scrape_lines(ls, in, output) ==
    IF ls = <<>> THEN output
    ELSE LET line == Head(ls)
             first == IF line = <<>> THEN "" ELSE line[1]
         IN
         IF in = "none"
         THEN scrape_lines(Tail(ls),
                 IF first \in CargoFences /\ ~output.some THEN "cargo"
                 ELSE IF first \in Fences THEN "other" ELSE "none",
                 output)
         ELSE IF line = <<"~~~">>
         THEN scrape_lines(Tail(ls), "none", output)
         ELSE scrape_lines(Tail(ls), in,
                 IF in = "cargo"
                 THEN [some |-> TRUE, v |-> output.v \o line \o <<"\n">>]
                 ELSE output)

scrape_markdown_manifest(content) ==
    scrape_lines(lines(content), "none", NoText)

(* find_embedded_manifest = find_code_block_manifest: the manifest of the  *)
(* doc comment that RE_CRATE_COMMENT finds after the shebang, if any.      *)
find_code_block_manifest(s) ==
    LET rest == strip_shebang(s).rest
        start == RE_CRATE_COMMENT(rest)
        comment == extract_comment(Drop(rest, start - 1))
    IN
    IF start = 0 \/ ~comment.ok THEN NoText
    ELSE scrape_markdown_manifest(comment.text)

(* A variant of contains_main_method that does not trim the line.          *)
contains_main_at_start(line) ==
    line # <<>> /\ line[1] \in MainPrefixes

(* contains_main_method: the line, trimmed at its start, starts with one   *)
(* of the four declarations.                                               *)
contains_main_method(line) ==
    LET code == IndexFrom(line, 1, {line[i] : i \in 1 .. Len(line)} \ Blank)
    IN  code > 0 /\ line[code] \in MainPrefixes

(* The script without entry point inside the fn main of split_input.       *)
WrapHead == "fn main() -> Result<(), Box<dyn std::error::Error+Sync+Send>> {"
wrap(content, found_shebang) ==
    <<WrapHead, "\t", "{", IF found_shebang THEN "\n" ELSE "\t", "    ">>
        \o content \o <<"    }", "\n", "    Ok(())", "\n", "}">>

(* The built-in file template is the one piece #{script}.                  *)
FILE_TEMPLATE == <<"#{script}">>

(* templates::expand: every piece of the template that RE_SUB matches is   *)
(* replaced by its substitution, the text between is copied; what was put  *)
(* in is not looked at again. The templates used here name only            *)
(* substitutions their callers supply.                                     *)
RECURSIVE expand(_, _)
expand(src, subs) ==
    IF src = <<>> THEN <<>>
    ELSE (IF Head(src) \in DOMAIN subs THEN subs[Head(src)]
          ELSE <<Head(src)>>)
            \o expand(Tail(src), subs)

(* The manifests a doc comment of the scripts drawn holds.                 *)
TimeDep == <<"[dependencies]", "\n", "time = 0.1.25", "\n">>
PathDep == <<"[dependencies]", "\n", "lib = { path = rel }", "\n">>
NotToml == <<"time := 0.1.25", "\n">>

EmptyManifest == [k \in TopKeys |-> Absent]

(* Manifest::into_toml, toml::from_str: the table a text stands for, or an *)
(* error.                                                                  *)
into_toml(text) ==
    IF text = <<>> THEN MergeOk(EmptyManifest)
    ELSE IF text = TimeDep
    THEN MergeOk([EmptyManifest EXCEPT !["dependencies"] =
            Table([NoSubs EXCEPT !["x"] = [t |-> "str", s |-> "0.1.25"]])])
    ELSE IF text = PathDep
    THEN MergeOk([EmptyManifest EXCEPT !["dependencies"] =
            Table([NoSubs EXCEPT !["y"] =
                      [t |-> "table", s |-> "{path=rel}"]])])
    ELSE MergeErr

(* default_manifest: DEFAULT_MANIFEST with the names filled in; of its     *)
(* sections [[bin]] is kept here, [package] and [profile.release] merge    *)
(* like any other table.                                                   *)
DefaultManifest == [EmptyManifest EXCEPT !["bin"] = Array("[name,path]")]

(* fix_manifest_paths on the manifests drawn here, whose one relative path *)
(* is that of the dependency y: it is joined to the directory of the       *)
(* script.                                                                 *)
fix_manifest_paths_drawn(mani) ==
    [mani EXCEPT !["dependencies"].tab =
        [j \in SubKeys |->
            IF @[j] = [t |-> "table", s |-> "{path=rel}"]
            THEN [t |-> "table", s |-> "{path=/base/rel}"] ELSE @[j]]]

SplitErr == [ok |-> FALSE, mani |-> EmptyManifest, source |-> <<>>]

(* split_input(Input::File(.., content)).                                  *)
split_input(content) ==
    LET found == find_code_block_manifest(content)
        manifest == IF found.some THEN found.v ELSE <<>>
        source == content
        has_main == \E i \in 1 .. Len(lines(source)) :
                        contains_main_method(lines(source)[i])
        stripped == strip_shebang(content)
        body == IF has_main THEN source
                ELSE wrap(stripped.rest, stripped.found)
        part_mani == into_toml(manifest)
        mani == IF part_mani.ok
                THEN merge_manifest(DefaultManifest, part_mani.t)
                ELSE MergeErr
    IN
    IF ~mani.ok THEN SplitErr
    ELSE [ok |-> TRUE, mani |-> fix_manifest_paths_drawn(mani.t),
          source |-> expand(FILE_TEMPLATE, [k \in {"#{script}"} |-> body])]

(* The scripts split_input is applied to: what stands before the doc       *)
(* comment, the doc comment, and the code.                                 *)
Interpreter == "/usr/bin/env rust-script"
Before ==
    [none |-> <<>>,
     shebang |-> <<"#!", Interpreter, "\n">>,
     bare_shebang |-> <<"#!", "\n">>,
     blank_line |-> <<"\n">>,
     spaces |-> <<" ", " ">>,
     shebang_blank_line |-> <<"#!", Interpreter, "\n", "\n">>,
     two_shebangs |-> <<"#!", Interpreter, "\n", "#!", "again", "\n">>,
     attribute |-> <<"#!", "[", "feature(x)]", "\n">>,
     code |-> <<"use x;", "\n">>]

BlockComment(fence, text) ==
    <<"/*!", "\n", "Here is a manifest:", "\n", "\n", fence, "\n">>
        \o text \o <<"~~~", "\n", "*/", "\n">>

(* A block comment whose prose and fences are indented by one run of white *)
(* space and the lines of its manifest by another.                         *)
RECURSIVE Indent(_, _)
Indent(by, ls) ==
    IF ls = <<>> THEN <<>>
    ELSE by \o Head(ls) \o <<"\n">> \o Indent(by, Tail(ls))

IndentedBlock(by, text_by, text) ==
    <<"/*!", "\n">>
        \o Indent(by, <<<<"Here is a manifest:">>>>) \o <<"\n">>
        \o Indent(by, <<<<"~~~cargo">>>>)
        \o Indent(text_by, lines(text))
        \o Indent(by, <<<<"~~~">>>>) \o <<"*/", "\n">>

RECURSIVE LineComment(_, _)
LineComment(marker, ls) ==
    IF ls = <<>> THEN <<>>
    ELSE <<marker>> \o Head(ls) \o <<"\n">> \o LineComment(marker, Tail(ls))

Comments ==
    [none |-> <<>>,
     block_cargo |-> BlockComment("~~~cargo", TimeDep),
     block_path |-> BlockComment("~~~Cargo", PathDep),
     block_toml |-> BlockComment("~~~toml", TimeDep),
     block_bad |-> BlockComment("~~~cargo", NotToml),
     block_indented |-> IndentedBlock(<<" ", " ">>, <<" ", " ">>, TimeDep),
     block_tab |-> IndentedBlock(<<" ", " ">>, <<" ", "\t">>, TimeDep),
     block_outdented |-> IndentedBlock(<<" ", " ">>, <<>>, TimeDep),
     inner_lines |-> LineComment("//!",
                        <<<<"~~~cargo">>>> \o lines(TimeDep) \o <<<<"~~~">>>>),
     outer_lines |-> LineComment("///",
                        <<<<"~~~cargo">>>> \o lines(TimeDep) \o <<<<"~~~">>>>)]

Code ==
    [main |-> <<"fn main(", ") {}", "\n">>,
     pub_main |-> <<"u1", "\n", "pub fn main(", ") {}", "\n">>,
     async_main |-> <<"async fn main(", ") {}", "\n", "u1", "\n">>,
     indented_main |-> <<"u1", "\n", " ", "\t", "pub async fn main(",
                         ") {}", "\n">>,
     statements |-> <<"u1", "\n", "u2", "\n">>,
     other_fn |-> <<"fn main2(", ") {}", "\n", "u1", "\n">>,
     commented_main |-> <<"//", " ", "fn main(", ") {}", "\n", "u1", "\n">>,
     pub_crate_main |-> <<"pub(crate) fn main(", ") {}", "\n">>,
     main_not_first |-> <<"u1", " ", "fn main(", ") {}", "\n">>]

InitSplit ==
    /\ ProgramAtRest
    /\ \E b \in DOMAIN Before, c \in DOMAIN Comments, m \in DOMAIN Code :
          pure = [fn |-> "split_input", before |-> b, comment |-> c,
                  code |-> m,
                  content |-> Before[b] \o Comments[c] \o Code[m],
                  done |-> FALSE, res |-> SplitErr]

SplitInput ==
    /\ pure.fn = "split_input"
    /\ ~pure.done
    /\ pure' = [pure EXCEPT !.done = TRUE, !.res = split_input(pure.content)]
    /\ UNCHANGED progVars

NextSplit == SplitInput

SpecSplit == InitSplit /\ [][NextSplit]_vars

(***************************************************************************)
(* Input::safe_name, Input::package_name            src/src/main.rs:933    *)
(* default_manifest                              src/src/manifest.rs:857   *)
(* Names and manifest texts are sequences of characters; the fixed parts   *)
(* of DEFAULT_MANIFEST are pieces of their own.                            *)
(***************************************************************************)
Digits == {"0", "1", "2", "3", "4", "5", "6", "7", "8", "9"}
LowerCase ==
    <<"a", "b", "c", "d", "e", "f", "g", "h", "i", "j", "k", "l", "m",
      "n", "o", "p", "q", "r", "s", "t", "u", "v", "w", "x", "y", "z">>
UpperCase ==
    <<"A", "B", "C", "D", "E", "F", "G", "H", "I", "J", "K", "L", "M",
      "N", "O", "P", "Q", "R", "S", "T", "U", "V", "W", "X", "Y", "Z">>
Range(f) == {f[i] : i \in DOMAIN f}

(* char::to_ascii_lowercase *)
to_ascii_lowercase(c) ==
    IF c \in Range(UpperCase)
    THEN LowerCase[CHOOSE i \in DOMAIN UpperCase : UpperCase[i] = c]
    ELSE c

safe_name(input) ==
    CASE input.kind = "File" -> input.name
      [] input.kind = "Expr" -> <<"e", "x", "p", "r">>
      [] input.kind = "Loop" -> <<"l", "o", "o", "p">>

(* A variant that lets a leading digit through as it is.                   *)
package_name_match_plain(i, c) ==
    IF c \in Digits \cup Range(LowerCase) \cup {"_", "-"} THEN <<c>>
    ELSE IF c \in Range(UpperCase) THEN <<to_ascii_lowercase(c)>>
    ELSE <<"_">>

(* package_name: what the arms of match (i, c) push, the first arm that    *)
(* fits being taken.                                                       *)
package_name_match(i, c) ==
    IF i = 0 /\ c \in Digits THEN <<"_", c>>
    ELSE IF c \in Digits \cup Range(LowerCase) \cup {"_", "-"} THEN <<c>>
    ELSE IF c \in Range(UpperCase) THEN <<to_ascii_lowercase(c)>>
    ELSE <<"_">>

(* for (i, c) in name.chars().enumerate(), with r what was pushed so far.  *)
RECURSIVE package_name_from(_, _, _)
package_name_from(name, i, r) ==
    IF i >= Len(name) THEN r
    ELSE package_name_from(name, i + 1,
                           r \o package_name_match(i, name[i + 1]))

package_name(input) == package_name_from(safe_name(input), 0, <<>>)

DEFAULT_MANIFEST ==
    <<"\n", "[package]", "\n",
      "name = ", "\"", "#{name}", "\"", "\n",
      "version = \"0.1.0\"", "\n",
      "edition = \"2018\"", "\n",
      "\n", "[[bin]]", "\n",
      "name = ", "\"", "#{bin_name}", "\"", "\n",
      "path = ", "\"", "#{file}", ".", "r", "s", "\"", "\n",
      "\n", "[profile.release]", "\n",
      "strip = true", "\n">>

(* toml::from_str on a text made from DEFAULT_MANIFEST. A basic string     *)
(* opened at l[i - 1] ends at the first quote that no backslash escapes;   *)
(* a backslash must begin one of the escapes of TOML; a newline ends the   *)
(* line and so leaves the string open. 0 stands for a string that is not   *)
(* well formed.                                                            *)
TomlEscapes == {"b", "t", "n", "f", "r", "\"", "\\"}

RECURSIVE basic_string_end(_, _)
basic_string_end(l, i) ==
    IF i > Len(l) THEN 0
    ELSE IF l[i] = "\"" THEN i
    ELSE IF l[i] = "\\"
    THEN IF i + 1 <= Len(l) /\ l[i + 1] \in TomlEscapes
         THEN basic_string_end(l, i + 2)
         ELSE 0
    ELSE basic_string_end(l, i + 1)

(* The characters a well formed basic string stands for.                   *)
RECURSIVE unescape(_)
unescape(body) ==
    IF body = <<>> THEN <<>>
    ELSE IF Head(body) = "\\"
    THEN <<CASE body[2] = "t" -> "\t"
             [] body[2] = "n" -> "\n"
             [] body[2] = "r" -> "\r"
             [] body[2] = "b" -> "<U+0008>"
             [] body[2] = "f" -> "\f"
             [] OTHER -> body[2]>> \o unescape(Drop(body, 2))
    ELSE <<Head(body)>> \o unescape(Tail(body))

(* One line of the text: empty, a header, a fixed key and value, or a key  *)
(* with a basic string that must be all that follows on the line (of the   *)
(* characters drawn here none begins a comment).                           *)
TomlFixedLines ==
    {<<>>, <<"[package]">>, <<"[[bin]]">>, <<"[profile.release]">>,
     <<"version = \"0.1.0\"">>, <<"edition = \"2018\"">>,
     <<"strip = true">>}
toml_line(l) ==
    IF l \in TomlFixedLines THEN [ok |-> TRUE, key |-> "", v |-> <<>>]
    ELSE IF /\ Len(l) >= 3
            /\ l[1] \in {"name = ", "path = "}
            /\ l[2] = "\""
            /\ basic_string_end(l, 3) = Len(l)
    THEN [ok |-> TRUE, key |-> l[1], v |-> unescape(SubSeq(l, 3, Len(l) - 1))]
    ELSE [ok |-> FALSE, key |-> "", v |-> <<>>]

(* The values of the string keys of the text in their order (package.name, *)
(* bin.name, bin.path), or an error when a line does not parse.            *)
toml_from_str(text) ==
    LET ls == [i \in DOMAIN lines(text) |-> toml_line(lines(text)[i])] IN
    IF \E i \in DOMAIN ls : ~ls[i].ok THEN [ok |-> FALSE, strings |-> <<>>]
    ELSE [ok |-> TRUE,
          strings |-> SelectSeq(ls, LAMBDA x : x.key # "")]

(* default_manifest(input, input_id): the template with the three names    *)
(* put in, then parsed; expect() aborts the process when the text does not *)
(* parse.                                                                  *)
default_manifest(input, id) ==
    LET pkg_name == package_name(input)
        bin_name == pkg_name \o <<"_", id>>
        subs == [k \in {"#{name}", "#{bin_name}", "#{file}"} |->
                    CASE k = "#{name}" -> pkg_name
                      [] k = "#{bin_name}" -> bin_name
                      [] k = "#{file}" -> safe_name(input)]
        mani_str == expand(DEFAULT_MANIFEST, subs)
        table == toml_from_str(mani_str)
    IN [panic |-> ~table.ok, text |-> mani_str, table |-> table]

(* The names an input can have: file stems of up to MaxNameLen characters  *)
(* over a digit, letters of both cases, the two marks package_name lets    *)
(* through, a letter outside ASCII and three characters a file name of the *)
(* operating system may hold; and the two names of the tests.              *)
MaxNameLen == 3
NameChars == {"1", "t", "S", "_", "-", "é", "\"", "\\", "\n"}
Stems ==
    UNION {[1 .. n -> NameChars] : n \in 1 .. MaxNameLen}
        \cup {<<"S", "c", "r", "i", "p", "t">>,
              <<"1", "S", "c", "r", "i", "p", "t">>}
NamedInputs ==
    {File(n, "/a/x.rs", "c1", 1) : n \in Stems}
        \cup {Expr("c1", None), Loop("c1", FALSE)}

NoManifest == [panic |-> FALSE, text |-> <<>>,
               table |-> [ok |-> FALSE, strings |-> <<>>]]

InitName ==
    /\ ProgramAtRest
    /\ \E a \in NamedInputs :
          pure = [fn |-> "package_name", input |-> a, named |-> FALSE,
                  name |-> <<>>, made |-> FALSE, mani |-> NoManifest]

(* try_main: RUST_SCRIPT_PKG_NAME is set from input.package_name().        *)
PackageName ==
    /\ pure.fn = "package_name"
    /\ ~pure.named
    /\ pure' = [pure EXCEPT !.named = TRUE, !.name = package_name(pure.input)]
    /\ UNCHANGED progVars

(* split_input: the default manifest of the input.                         *)
MakeDefaultManifest ==
    /\ pure.fn = "package_name"
    /\ pure.named
    /\ ~pure.made
    /\ pure' = [pure EXCEPT !.made = TRUE,
                            !.mani = default_manifest(pure.input, "id1")]
    /\ UNCHANGED progVars

NextName ==
    \/ PackageName
    \/ MakeDefaultManifest

SpecName == InitName /\ [][NextName]_vars

(***************************************************************************)
(* fix_manifest_paths, iterate_toml_mut_path     src/src/manifest.rs:939   *)
(* A toml::Value is a string, an integer or a table; a table maps the keys *)
(* it holds to values. Texts of paths are sequences of pieces, "/" being a *)
(* piece of its own.                                                       *)
(***************************************************************************)
NoTab == [k \in {} |-> 0]
ValueString(s) == [t |-> "String", s |-> s, tab |-> NoTab]
ValueInteger == [t |-> "Integer", s |-> <<>>, tab |-> NoTab]
ValueTable(tab) == [t |-> "Table", s |-> <<>>, tab |-> tab]

(* Path::is_relative on Unix: a path is absolute when it starts at the     *)
(* root.                                                                   *)
is_relative(s) == s = <<>> \/ s[1] # "/"

(* Path::join: an absolute path replaces the base; otherwise the path is   *)
(* put after the base, with a separator unless the base ends in one.       *)
join(base, s) ==
    IF ~is_relative(s) THEN s
    ELSE IF base # <<>> /\ base[Len(base)] = "/" THEN base \o s
    ELSE base \o <<"/">> \o s

(* Path::to_str: the text of the path when all of it is valid UTF-8.       *)
NotUtf8 == {"s<ff>"}
to_str(q) ==
    IF \E i \in DOMAIN q : q[i] \in NotUtf8
    THEN [some |-> FALSE, v |-> <<>>]
    ELSE [some |-> TRUE, v |-> q]

(* The closure fix_manifest_paths hands to iterate_toml_mut_path.          *)
on_each(v, base) ==
    IF v.t = "String" /\ is_relative(v.s) /\ to_str(join(base, v.s)).some
    THEN ValueString(to_str(join(base, v.s)).v)
    ELSE v

(* iterate_toml_mut_path(base, path, on_each): the value after the closure *)
(* was applied to every value at the path; onto is the directory the       *)
(* closure carries.                                                        *)
RECURSIVE iterate_toml_mut_path(_, _, _)
iterate_toml_mut_path(base, path, onto) ==
    IF path = <<>> THEN on_each(base, onto)
    ELSE LET cur == Head(path)
             tail == Tail(path)
         IN
         IF base.t # "Table" THEN base
         ELSE IF cur = "*"
         THEN ValueTable([k \in DOMAIN base.tab |->
                            iterate_toml_mut_path(base.tab[k], tail, onto)])
         ELSE IF cur \in DOMAIN base.tab
         THEN ValueTable([base.tab EXCEPT
                            ![cur] = iterate_toml_mut_path(@, tail, onto)])
         ELSE base

(* The values that need to be rewritten, in the order of the source.       *)
RewrittenPaths ==
    <<<<"build-dependencies", "*", "path">>,
      <<"dependencies", "*", "path">>,
      <<"dev-dependencies", "*", "path">>,
      <<"package", "build">>,
      <<"target", "*", "dependencies", "*", "path">>>>

RECURSIVE fix_paths_from(_, _, _)
fix_paths_from(mani, paths, base) ==
    IF paths = <<>> THEN mani
    ELSE fix_paths_from(iterate_toml_mut_path(mani, Head(paths), base),
                        Tail(paths), base)

fix_manifest_paths(mani, base) ==
    fix_paths_from(ValueTable(mani), RewrittenPaths, base).tab

(* The manifests fix_manifest_paths is applied to. A leaf is a relative    *)
(* path, the empty text, an absolute path or a number. Five leaves stand   *)
(* at the places named in RewrittenPaths; one more stands at one of the    *)
(* places next to them, or takes the place of the table dependencies.      *)
Leaves ==
    {ValueString(<<"lib", "/", "x">>), ValueString(<<>>),
     ValueString(<<"/", "opt", "/", "x">>), ValueInteger}
Dep(leaf) == ValueTable(("path" :> leaf) @@ ("version" :> ValueString(<<"1">>)))
Elsewhere ==
    {"lib.path", "package.name", "dependencies.a.git",
     "dependencies.path", "target.t.dev-dependencies.a.path",
     "dependencies", "none"}
Manifest(b, d, v, p, t, where, other) ==
    ("build-dependencies" :> ValueTable("a" :> Dep(b)))
    @@ ("dependencies" :>
            CASE where = "dependencies" -> other
              [] where = "dependencies.a.git" ->
                    ValueTable("a" :> ValueTable(("path" :> d)
                                                  @@ ("git" :> other)))
              [] where = "dependencies.path" ->
                    ValueTable(("a" :> Dep(d)) @@ ("path" :> other))
              [] OTHER -> ValueTable("a" :> Dep(d)))
    @@ ("dev-dependencies" :> ValueTable(("a" :> Dep(v)) @@ ("b" :> Dep(v))))
    @@ ("package" :>
            ValueTable(("build" :> p)
                @@ ("name" :> IF where = "package.name" THEN other
                              ELSE ValueString(<<"n">>))))
    @@ ("target" :>
            ValueTable("t" :>
                ValueTable(("dependencies" :> ValueTable("a" :> Dep(t)))
                    @@ (IF where = "target.t.dev-dependencies.a.path"
                        THEN "dev-dependencies" :> ValueTable("a" :> Dep(other))
                        ELSE NoTab))))
    @@ (IF where = "lib.path"
        THEN "lib" :> ValueTable("path" :> other)
        ELSE NoTab)

(* Input::base_path: the directory of the script, or the current           *)
(* directory; it may be the root, and it need not be valid UTF-8.          *)
BaseDirs ==
    {<<"/", "home", "/", "scripts">>, <<"/">>, <<"/", "home", "/", "s<ff>">>}

InitFix ==
    /\ ProgramAtRest
    /\ \E b \in Leaves, d \in Leaves, v \in Leaves, p \in Leaves,
          t \in Leaves, where \in Elsewhere, other \in Leaves,
          base \in BaseDirs :
          /\ where = "none" => other = ValueInteger
          /\ pure = [fn |-> "fix_manifest_paths",
                     mani |-> Manifest(b, d, v, p, t, where, other),
                     base |-> base, done |-> FALSE, res |-> NoTab]

(* split_input: fix_manifest_paths(mani, &input.base_path()).              *)
FixManifestPaths ==
    /\ pure.fn = "fix_manifest_paths"
    /\ ~pure.done
    /\ pure' = [pure EXCEPT !.done = TRUE,
                            !.res = fix_manifest_paths(pure.mani, pure.base)]
    /\ UNCHANGED progVars

NextFix == FixManifestPaths

SpecFix == InitFix /\ [][NextFix]_vars

(***************************************************************************)
(* find_script                                      src/src/main.rs:859    *)
(* A path is the file name it ends in, a sequence of pieces with "." a     *)
(* piece of its own; the files that can be opened are a set of paths.      *)
(***************************************************************************)
(* Path::extension: what follows the last dot of the file name; none when  *)
(* there is no dot or the only dot begins the name.                        *)
LastDot(path) ==
    LET dots == {i \in DOMAIN path : path[i] = "."} IN
    IF dots = {} THEN 0 ELSE CHOOSE i \in dots : \A j \in dots : j <= i
extension(path) ==
    IF LastDot(path) <= 1 THEN [some |-> FALSE, v |-> <<>>]
    ELSE [some |-> TRUE, v |-> Drop(path, LastDot(path))]

(* Path::with_extension: the file stem, a dot and the extension.           *)
with_extension(path, ext) ==
    (IF LastDot(path) <= 1 THEN path ELSE SubSeq(path, 1, LastDot(path) - 1))
        \o <<".", ext>>

(* consts::SEARCH_EXTS: the extensions tried, in this order.               *)
SEARCH_EXTS == <<"ers", "rs">>

NotFound(tried) == [some |-> FALSE, v |-> <<>>, tried |-> tried]
Found(path, tried) == [some |-> TRUE, v |-> path, tried |-> tried]

(* for &ext in consts::SEARCH_EXTS: the first path that opens is returned; *)
(* tried records the paths File::open was called with.                     *)
RECURSIVE search_exts(_, _, _, _)
search_exts(path, exts, openable, tried) ==
    IF exts = <<>> THEN NotFound(tried)
    ELSE LET q == with_extension(path, Head(exts)) IN
         IF q \in openable THEN Found(q, Append(tried, q))
         ELSE search_exts(path, Tail(exts), openable, Append(tried, q))

(* A variant that tries the other extensions whatever the path looks like. *)
find_script_any_path(path, openable) ==
    IF path \in openable THEN Found(path, <<path>>)
    ELSE search_exts(path, SEARCH_EXTS, openable, <<path>>)

find_script(path, openable) ==
    IF path \in openable THEN Found(path, <<path>>)
    ELSE IF extension(path).some THEN NotFound(<<path>>)
    ELSE search_exts(path, SEARCH_EXTS, openable, <<path>>)

(* The paths a user names and the files of the directory.                  *)
GivenPaths ==
    {<<"s">>, <<"s", ".", "rs">>, <<"s", ".", "txt">>, <<"s", ".">>,
     <<".", "s">>}
FilesThere ==
    GivenPaths \cup
        {<<"s", ".", "ers">>, <<".", "s", ".", "ers">>,
         <<".", "s", ".", "rs">>, <<"s", ".", "txt", ".", "rs">>,
         <<"s", ".", ".", "rs">>}

InitFind ==
    /\ ProgramAtRest
    /\ \E path \in GivenPaths, openable \in SUBSET FilesThere :
          pure = [fn |-> "find_script", path |-> path,
                  openable |-> openable, done |-> FALSE,
                  res |-> NotFound(<<>>)]

(* try_main: find_script(&script).                                         *)
FindScriptIn ==
    /\ pure.fn = "find_script"
    /\ ~pure.done
    /\ pure' = [pure EXCEPT !.done = TRUE,
                            !.res = find_script(pure.path, pure.openable)]
    /\ UNCHANGED progVars

NextFind == FindScriptIn

SpecFind == InitFind /\ [][NextFind]_vars

(***************************************************************************)
(* scrape_markdown_manifest applied to the text of a doc comment: up to    *)
(* MaxBlocks fenced code blocks, each after a line of prose.               *)
(***************************************************************************)
MaxBlocks == 3
BlockBodies == {<<>>, <<"\n">>, TimeDep, PathDep}
Blocks == [fence : Fences \ {"~~~"}, body : BlockBodies]

RECURSIVE Markdown(_)
Markdown(blocks) ==
    IF blocks = <<>> THEN <<>>
    ELSE <<"Some prose.", "\n", "\n", Head(blocks).fence, "\n">>
            \o Head(blocks).body \o <<"~~~", "\n", "\n">>
            \o Markdown(Tail(blocks))

InitScrape ==
    /\ ProgramAtRest
    /\ \E n \in 0 .. MaxBlocks :
          \E blocks \in [1 .. n -> Blocks] :
              pure = [fn |-> "scrape_markdown_manifest", blocks |-> blocks,
                      done |-> FALSE, res |-> NoText]

(* find_code_block_manifest: scrape_markdown_manifest(&comment).           *)
ScrapeMarkdownManifest ==
    /\ pure.fn = "scrape_markdown_manifest"
    /\ ~pure.done
    /\ pure' = [pure EXCEPT
                    !.done = TRUE,
                    !.res = scrape_markdown_manifest(Markdown(pure.blocks))]
    /\ UNCHANGED progVars

NextScrape == ScrapeMarkdownManifest

SpecScrape == InitScrape /\ [][NextScrape]_vars

(***************************************************************************)
(* SpecPkg: invocations on one script whose text changes from one to the   *)
(* next, with and without --pkg-path; no process is killed.                *)
(***************************************************************************)
PkgArgs ==
    {a \in AllArgs :
        /\ a.id = "id1" /\ a.kind # "Bench" /\ ~a.clear /\ ~a.force
        /\ a.pkg \/ (PlainRun(a) /\ FirstText(a))}

NextPkg ==
    \/ \E a \in PkgArgs : Start("A", a)
    \/ StepConc("A")
    \/ TickIdle

SpecPkg == Init /\ [][NextPkg]_vars

(***************************************************************************)
(* SpecShare: two invocations share the cache, each on a script of its     *)
(* own, so that they meet only where one lists the cache the other is      *)
(* filling.                                                                *)
(***************************************************************************)
ShareArgs(p) ==
    {a \in AllArgs :
        /\ a.id = (IF p = "A" THEN "id1" ELSE "id2")
        /\ FirstText(a) /\ PlainRun(a) /\ ~a.force}

NextShare ==
    \/ \E p \in Procs : \E a \in ShareArgs(p) : Start(p, a)
    \/ \E p \in Procs : StepConc(p)
    \/ TickIdle

SpecShare == Init /\ [][NextShare]_vars

(***************************************************************************)
(* Claims about the file writers (SpecFile).                               *)
(***************************************************************************)

(* What a reader of the path sees: never less than a whole text.           *)
OldOrNew(k, cur) ==
    \/ cur.ex /\ cur.c = k.c
    \/ cur.ex = k.pre.ex /\ cur.c = k.pre.c

(* C2: while write_if_changed or overwrite_file replaces a file, the path  *)
(* holds the complete old content or the complete new content at every     *)
(* intermediate step (so also for a reader, and after a crash there).      *)
C2_AtomicReplace ==
    \A p \in Procs :
        proc[p].call.fn \in {"write_if_changed", "overwrite_file"}
            => OldOrNew(proc[p].call, FileAt(proc[p].call.d, proc[p].call.f))

(* The half of C2 the code keeps: overwrite_file alone is atomic.          *)
OverwriteFileAtomic ==
    \A p \in Procs :
        proc[p].call.fn = "overwrite_file"
            => OldOrNew(proc[p].call, FileAt(proc[p].call.d, proc[p].call.f))

Identical(k) == k.pre.ex /\ k.pre.c = k.c

C11_RoundTrip ==
    \A p \in Procs :
        LET l == proc[p].last IN
        l.r \in {"Ok", "Same", "Changed"} => (l.post.ex /\ l.post.c = l.c)

(* The half of C11 the code keeps: write_if_changed, and overwrite_file    *)
(* when it reports Changed.                                                *)
RoundTripWhenWritten ==
    \A p \in Procs :
        LET l == proc[p].last IN
        l.r \in {"Ok", "Changed"} => (l.post.ex /\ l.post.c = l.c)

(***************************************************************************)
(* Claims about one invocation after another (Spec).                       *)
(***************************************************************************)
Ended(p) == proc[p].pc = "done" /\ proc[p].out.res # "killed"

(* The invocation got past the run step of try_main.                       *)
Ran(p) == proc[p].out.gen = "ok" /\ proc[p].pc # "run"

NormalNoForce(a) == a.script /\ a.kind = "Normal" /\ ~a.force /\ ~a.genonly

C3_ExistingDirSurvivesFailure ==
    \A p \in Procs :
        (Ended(p) /\ proc[p].out.gen = "failed" /\ proc[p].act.cache
            /\ "mkdir" \notin proc[p].out.faults) =>
            (dir[proc[p].act.pd].ex <=> proc[p].out.hadDir)

C6_GcAfterEveryMainAction ==
    \A p \in Procs :
        (Ended(p) /\ proc[p].out.gen # "none") =>
            (proc[p].out.gcRan <=> ~proc[p].args.clear)

(* C6 amended: the age-based pass runs exactly when package generation     *)
(* succeeded and no full clear was asked for, whether the build or run     *)
(* after it succeeded or failed; a failed generation returns before it.    *)
C6_GcAfterGeneratedPackage ==
    \A p \in Procs :
        Ended(p) =>
            (proc[p].out.gcRan <=> (proc[p].out.gen = "ok" /\ ~proc[p].args.clear))

(* The pass run after a build or run that failed.                          *)
C6_GcAfterFailedRun ==
    \E p \in Procs :
        /\ Ended(p) /\ proc[p].out.gcRan
        /\ proc[p].out.res \in {"err", "child"}

(* C9: a full clear empties the build-artifact root whatever is in it, and *)
(* succeeds when no cache exists yet.                                      *)
C9_FullClear ==
    \A p \in Procs :
        (Ended(p) /\ proc[p].args.clear /\ ~proc[p].args.script) =>
            /\ \A i \in Ids : ~bin[i].ex
            /\ proc[p].out.noCache => proc[p].out.res = "ok"

SynthesisFaults == {"input", "manifest", "mkdir", "mani", "src", "meta"}

(* C13: an invocation in which input lookup, reading, manifest parsing or  *)
(* merging, or writing the package files failed never reaches the          *)
(* toolchain: no subprocess is spawned, and it ends with an error.         *)
C13_NoSpawnAfterSynthesisFailure ==
    \A p \in Procs :
        (proc[p].out.faults \cap SynthesisFaults # {}) =>
            /\ proc[p].out.spawned = 0
            /\ proc[p].out.gen # "ok"
            /\ proc[p].pc \notin {"run", "defer_gc"}
            /\ Ended(p) => proc[p].out.res = "err"

(* An invocation has ended with an error after one of its package files    *)
(* could not be written, and spawned nothing.                              *)
C13_FailedBeforeToolchain ==
    \E p \in Procs :
        /\ Ended(p)
        /\ proc[p].out.faults \cap {"mani", "src", "meta"} # {}
        /\ proc[p].out.spawned = 0
        /\ proc[p].out.res = "err"

AgePass(g) == ~g.max0 /\ g.listed # {}

(* C7 as stated: in a pass with max_age > 0 a directory whose own          *)
(* modification time is older than the cutoff is deleted, one whose own    *)
(* modification time is newer survives, and a plain file is never deleted. *)
C7_ByDirectoryMtime ==
    \A p \in Procs :
        LET g == proc[p].gc IN
        AgePass(g) =>
            \A n \in g.log :
                /\ (n.isDir /\ n.dirEx /\ n.dirT < g.cutoff) =>
                      (n.removed \/ "gc_remove" \in proc[p].out.faults)
                /\ (n.isDir /\ n.dirEx /\ n.dirT > g.cutoff) => ~n.removed
                /\ ~n.isDir => ~n.removed

(* C7 amended: the pass goes by the metadata file inside the directory: a  *)
(* directory is deleted (unless the removal fails) when that file cannot   *)
(* be opened or was last modified at or before the cutoff, and survives    *)
(* when that file is newer; the directory's own time plays no part; a      *)
(* plain file is never deleted.                                            *)
C7_ByMetadataMtime ==
    \A p \in Procs :
        LET g == proc[p].gc IN
        AgePass(g) =>
            \A n \in g.log :
                LET old == ~n.metaEx \/ n.metaT <= g.cutoff IN
                /\ n.removed => (n.isDir /\ old)
                /\ (n.isDir /\ n.dirEx /\ old) =>
                      (n.removed \/ "gc_remove" \in proc[p].out.faults)
                /\ n.removed => ~dir[n.e].ex

(* A directory modified after the cutoff, deleted by the pass.             *)
C7_NewDirectoryDeleted ==
    \E p \in Procs :
        LET g == proc[p].gc IN
        /\ AgePass(g)
        /\ \E n \in g.log : n.isDir /\ n.dirT > g.cutoff /\ n.removed

(* C8: a pass that fails on one entry skips it and still processes the     *)
(* remaining entries, and the result of the main action stays what the     *)
(* run step made it.                                                       *)
C8_EntryFailureSkipped ==
    \A p \in Procs :
        LET g == proc[p].gc IN
        (g.r # "none" /\ g.listed # {}) =>
            /\ g.listed \subseteq (g.seen \cup g.bad)
            /\ (Ended(p) /\ ~g.max0) => proc[p].out.res = proc[p].out.main

(***************************************************************************)
(* Claims about concurrent invocations (SpecConc).                         *)
(***************************************************************************)

(* C5: of two concurrent invocations of one script, neither reads a        *)
(* missing manifest or source and neither fails unless an operation of     *)
(* its own failed.                                                         *)
C5_WorstCaseRedundantRebuild ==
    \A p \in Procs :
        /\ ~proc[p].out.readMissing
        /\ (Ended(p) /\ proc[p].out.res # "ok") => proc[p].out.faults # {}

(* C27: a test or bench invocation makes no freshness check: the previous  *)
(* metadata is not loaded and nothing is forced by the user's flag; both   *)
(* files are handed to overwrite_file without a previous hash, so every    *)
(* invocation that gets through the package generation has written the     *)
(* manifest and the source again, and it then runs the toolchain.          *)
C27_TestAlwaysRewritesAndRuns ==
    \A p \in Procs :
        LET x == proc[p].act
            k == proc[p].call
            o == proc[p].out
        IN
        proc[p].args.kind # "Normal" =>
            /\ ~x.old.some /\ ~x.force
            /\ k.fn = "overwrite_file" => k.h = None
            /\ proc[p].pc = "after_mani" /\ k.r # "Err"
                  => k.f = "mani" /\ k.wrote /\ k.r = "Changed"
            /\ proc[p].pc \in {"write_meta", "run"}
                  => k.f = "src" /\ k.wrote /\ k.r = "Changed"
            /\ proc[p].pc = "run" => x.execute
            /\ o.gen = "ok" /\ proc[p].pc # "run" => o.spawned = 1

(* A test invocation found the package directory of an earlier invocation  *)
(* with the source file holding the very text it writes, wrote the source  *)
(* again all the same, wrote the metadata and has run the toolchain.       *)
C27_TestAfterRunOfSameScript ==
    \E p \in Procs :
        LET x == proc[p].act
            k == proc[p].call
        IN
        /\ proc[p].args.kind = "Test"
        /\ proc[p].pc = "defer_gc"
        /\ proc[p].out.hadDir
        /\ k.f = "src" /\ k.pre.ex /\ k.pre.c = k.c /\ k.wrote
        /\ dir[x.pd].meta.ex
        /\ proc[p].out.spawned = 1

(***************************************************************************)
(* Claims about the metadata of a package directory (SpecPkg).             *)
(***************************************************************************)
AtRest == \A p \in Procs : ~Running(p)

MetadataMatchesFiles(d) ==
    dir[d].meta.ex =>
        /\ dir[d].mani.ex /\ dir[d].meta.c.mh = hash_str(dir[d].mani.c)
        /\ dir[d].src.ex /\ dir[d].meta.c.sh = hash_str(dir[d].src.c)

(* C29: after any sequence of invocations, failed ones included, the       *)
(* metadata file of a package directory records the hashes of the manifest *)
(* and the source file that are on disk in it.                             *)
C29_MetadataMatchesFiles ==
    AtRest => \A d \in Dirs : MetadataMatchesFiles(d)

(* It does in the cache, where a failed invocation removes the directory.  *)
CacheMetadataMatchesFiles ==
    AtRest => \A d \in Ids : MetadataMatchesFiles(d)

(***************************************************************************)
(* Claims about the identity of an input (SpecId).                         *)
(***************************************************************************)

(* C15: the ids two invocations compute are equal whenever their inputs    *)
(* agree in the identity-relevant part: two files in the absolute path,    *)
(* whatever their names, contents and modification times; two expressions  *)
(* in template and content; two loops in the count flag and content. The   *)
(* clock may advance between the two computations.                         *)
C15_IdentityRelevantBytesOnly ==
    (pure.ida # NoId /\ pure.idb # NoId) =>
        LET a == pure.a
            b == pure.b
        IN
        /\ (a.kind = "File" /\ b.kind = "File" /\ a.path = b.path)
              => pure.ida = pure.idb
        /\ (a.kind = "Expr" /\ b.kind = "Expr" /\ a.template = b.template
              /\ a.content = b.content) => pure.ida = pure.idb
        /\ (a.kind = "Loop" /\ b.kind = "Loop" /\ a.count = b.count
              /\ a.content = b.content) => pure.ida = pure.idb

(* Two files at one path that differ in name, content and modification     *)
(* time were given the same id, at different times.                        *)
C15_SamePathOtherContent ==
    /\ pure.ida # NoId /\ pure.idb # NoId
    /\ pure.a.kind = "File" /\ pure.b.kind = "File"
    /\ pure.a.path = pure.b.path
    /\ pure.a.name # pure.b.name
    /\ pure.a.content # pure.b.content
    /\ pure.a.mtime # pure.b.mtime
    /\ pure.ida = pure.idb
    /\ now > MAX_CACHE_AGE_MS

(***************************************************************************)
(* Claims about merge_manifest (SpecMerge).                                *)
(***************************************************************************)
Merged == pure.fn = "merge_manifest" /\ pure.done

(* What C16 and C17 say of the top-level key k of the merged manifest.     *)
BothTables(k) == pure.into[k].t = "table" /\ pure.from[k].t = "table"

Extended(k) ==
    /\ pure.res.t[k].t = "table"
    /\ \A j \in SubKeys :
          pure.res.t[k].tab[j] = IF pure.from[k].tab[j].t # "absent"
                                 THEN pure.from[k].tab[j]
                                 ELSE pure.into[k].tab[j]

MergedAs(k) ==
    IF pure.from[k].t = "absent" THEN pure.res.t[k] = pure.into[k]
    ELSE IF BothTables(k) THEN Extended(k)
    ELSE pure.res.t[k] = pure.from[k]

TableOverOther(k) ==
    pure.from[k].t = "table" /\ pure.into[k].t \in {"str", "array"}

OtherOverTable(k) ==
    pure.from[k].t \in {"str", "array"} /\ pure.into[k].t = "table"

(* C16: the merge yields a manifest in which every top-level key of the    *)
(* fragment holds the default's table extended by the fragment's when both *)
(* hold tables and the fragment's value in every other case, and every     *)
(* other key holds the default's value.                                    *)
C16_MergeByTopLevelKey ==
    Merged => (pure.res.ok /\ \A k \in TopKeys : MergedAs(k))

(* C16 as the code has it: that is the manifest whenever there is one, and *)
(* there is none exactly when the fragment holds a table at a key where    *)
(* the default holds a value that is not a table.                          *)
C16_MergeUnlessTableOverOther ==
    Merged =>
        /\ pure.res.ok <=> ~(\E k \in TopKeys : TableOverOther(k))
        /\ pure.res.ok => \A k \in TopKeys : MergedAs(k)

(* A merge in which one table was extended, with a sub-key replaced by the *)
(* fragment's table and a sub-key of the default left alone, and in which  *)
(* a key the fragment lacks kept the default's array.                      *)
C16_ExtendedAndKept ==
    /\ Merged /\ pure.res.ok
    /\ BothTables("dependencies")
    /\ pure.into["dependencies"].tab["x"].t = "table"
    /\ pure.from["dependencies"].tab["x"].t = "table"
    /\ pure.res.t["dependencies"].tab["x"].s = "{b}"
    /\ pure.from["dependencies"].tab["y"].t = "absent"
    /\ pure.res.t["dependencies"].tab["y"].s = "a"
    /\ pure.from["bin"].t = "absent"
    /\ pure.res.t["bin"].t = "array"

(* C17: the merge fails whenever at a key present on both sides exactly    *)
(* one of the two values is a table.                                       *)
C17_ConflictBothDirections ==
    Merged =>
        ((\E k \in TopKeys : TableOverOther(k) \/ OtherOverTable(k))
            => ~pure.res.ok)

(* C17 as the code has it: the merge fails exactly when the fragment holds *)
(* a table where the default holds a non-table value; a non-table value of *)
(* the fragment replaces a table of the default.                           *)
C17_ConflictOnlyTableOverOther ==
    Merged =>
        /\ (\E k \in TopKeys : TableOverOther(k)) <=> ~pure.res.ok
        /\ \A k \in TopKeys :
              (pure.res.ok /\ OtherOverTable(k)) =>
                  pure.res.t[k] = pure.from[k]

(* A merge failed on a table of the fragment over an array of the default, *)
(* as [bin] over the [[bin]] of the default manifest.                      *)
C17_TableOverArrayFails ==
    /\ Merged /\ ~pure.res.ok
    /\ TableOverOther("bin") /\ pure.into["bin"].t = "array"
    /\ ~(\E k \in TopKeys : OtherOverTable(k))

(***************************************************************************)
(* Claims about split_input (SpecSplit).                                   *)
(***************************************************************************)
Split == pure.fn = "split_input" /\ pure.done

(* The doc comments that hold a manifest in a fence labelled cargo.        *)
WithManifest == {"block_cargo", "block_path", "inner_lines", "outer_lines"}

(* The manifest of the comment made it into the result / did not.          *)
FragmentUsed == pure.res.ok /\ pure.res.mani["dependencies"].t = "table"
DefaultOnly == pure.res.ok /\ pure.res.mani = DefaultManifest

BeforeFound == {"none", "shebang", "blank_line", "spaces",
                "shebang_blank_line", "two_shebangs"}

LineOf(s, i) == 1 + Cardinality({j \in 1 .. i - 1 : s[j] = "\n"})

(* The lines of code of the user in the scripts drawn.                     *)
UserCode == {"u1", "u2", "use x;", "fn main2("}

(* The script was put inside the fn main of split_input.                   *)
Wrapped == pure.res.ok /\ pure.res.source[1] = WrapHead

KeepsLineNumbers ==
    \A i \in 1 .. Len(pure.content) :
        pure.content[i] \in UserCode =>
            \E j \in 1 .. Len(pure.res.source) :
                /\ pure.res.source[j] = pure.content[i]
                /\ LineOf(pure.res.source, j) = LineOf(pure.content, i)

(* C19: in the wrapped source of a script without entry point every line   *)
(* of user code has the line number it has in the file.                    *)
C19_LineNumbersKept ==
    (Split /\ Wrapped) => KeepsLineNumbers

(* What the code keeps of C19: the line numbers of every script but those  *)
(* whose first line is #! alone.                                           *)
LineNumbersKeptAfterFullShebang ==
    (Split /\ Wrapped /\ pure.before # "bare_shebang") => KeepsLineNumbers

(* A piece of the text s is the first thing on its line but white space.   *)
StartsLine(s, i) ==
    \A j \in 1 .. i - 1 :
        (\A k \in j .. i - 1 : s[k] # "\n") => s[j] \in {" ", "\t"}

EntryPoint ==
    \E i \in 1 .. Len(pure.content) :
        pure.content[i] \in MainPrefixes /\ StartsLine(pure.content, i)

(* C20: the source is the file as it is exactly when some line of it,      *)
(* trimmed at its start, starts with fn main(, pub fn main(, async fn      *)
(* main( or pub async fn main(; otherwise it is the file without what      *)
(* strip_shebang takes off, inside a fn main that returns a Result and     *)
(* ends with Ok(()).                                                       *)
C20_VerbatimIffEntryPoint ==
    (Split /\ pure.res.ok) =>
        LET src == pure.res.source
            n == Len(src)
        IN
        /\ src = pure.content <=> EntryPoint
        /\ ~EntryPoint =>
              /\ src[1] = WrapHead
              /\ SubSeq(src, 6, n - 5) = strip_shebang(pure.content).rest
              /\ SubSeq(src, n - 4, n)
                    = <<"    }", "\n", "    Ok(())", "\n", "}">>

(* A script whose entry point stands indented on a later line, after a     *)
(* shebang line, went through as it is.                                    *)
C20_IndentedMainVerbatim ==
    /\ Split /\ pure.res.ok
    /\ pure.before = "shebang" /\ pure.code = "indented_main"
    /\ pure.res.source = pure.content


(***************************************************************************)
(* Claims about package_name and default_manifest (SpecName).              *)
(***************************************************************************)
Named == pure.fn = "package_name" /\ pure.named

(* The mapping of one character of the name, at position i counted from 1. *)
MappedChar(name, i) ==
    LET c == name[i] IN
    IF i = 1 /\ c \in Digits THEN <<"_", c>>
    ELSE IF c \in Range(LowerCase) \cup Digits \cup {"_", "-"} THEN <<c>>
    ELSE IF c \in Range(UpperCase)
    THEN <<LowerCase[CHOOSE k \in 1 .. 26 : UpperCase[k] = c]>>
    ELSE <<"_">>

RECURSIVE MappedFrom(_, _)
MappedFrom(name, i) ==
    IF i > Len(name) THEN <<>>
    ELSE MappedChar(name, i) \o MappedFrom(name, i + 1)

C22_ValidIdentifier ==
    Named =>
        /\ pure.name # <<>>
        /\ pure.name[1] \in Range(LowerCase) \cup Range(UpperCase) \cup {"_"}
        /\ \A i \in DOMAIN pure.name :
              pure.name[i] \in Range(LowerCase) \cup Range(UpperCase)
                                  \cup Digits \cup {"_"}

(* C28: the text default_manifest makes for an input always parses, so     *)
(* the expectation that it does never aborts the process.                  *)
C28_DefaultManifestParses ==
    pure.fn = "package_name" /\ pure.made => ~pure.mani.panic

(***************************************************************************)
(* Claims about fix_manifest_paths (SpecFix).                              *)
(***************************************************************************)
Fixed == pure.fn = "fix_manifest_paths" /\ pure.done

Missing == [t |-> "Missing", s |-> <<>>, tab |-> NoTab]

(* The value a manifest holds at an address, a sequence of keys.           *)
RECURSIVE At(_, _)
At(v, addr) ==
    IF addr = <<>> THEN v
    ELSE IF v.t = "Table" /\ Head(addr) \in DOMAIN v.tab
    THEN At(v.tab[Head(addr)], Tail(addr))
    ELSE Missing

(* The addresses of all values of a manifest.                              *)
RECURSIVE Addrs(_)
Addrs(v) ==
    {<<>>} \cup
        (IF v.t # "Table" THEN {}
         ELSE UNION {{<<k>> \o a : a \in Addrs(v.tab[k])} :
                        k \in DOMAIN v.tab})

(* package.build and <table>.<any name>.path for the tables dependencies,  *)
(* dev-dependencies, build-dependencies and target.<any>.dependencies.     *)
PathLocation(addr) ==
    \/ addr = <<"package", "build">>
    \/ /\ Len(addr) = 3
       /\ addr[1] \in {"dependencies", "dev-dependencies",
                       "build-dependencies"}
       /\ addr[3] = "path"
    \/ /\ Len(addr) = 5
       /\ addr[1] = "target"
       /\ addr[3] = "dependencies"
       /\ addr[5] = "path"

(* What the claim lets stand at an address after the call.                 *)
RewrittenAsClaimed(v, addr, base) ==
    IF PathLocation(addr) /\ v.t = "String" /\ is_relative(v.s)
    THEN ValueString(join(base, v.s))
    ELSE v

ExactlyThePathsRewritten ==
    LET old == ValueTable(pure.mani)
        new == ValueTable(pure.res)
    IN
    /\ Addrs(new) = Addrs(old)
    /\ \A a \in Addrs(old) :
          At(old, a).t # "Table"
              => At(new, a) = RewrittenAsClaimed(At(old, a), a, pure.base)

(* C23: fix_manifest_paths rewrites exactly the string values at           *)
(* package.build and at <table>.<name>.path of the four dependency tables: *)
(* a relative path becomes the base directory joined with it, an absolute  *)
(* path and every other value of the manifest stay as they are.            *)
C23_ExactlyThePathsRewritten == Fixed => ExactlyThePathsRewritten

(* The same for the scripts of a directory whose name is valid UTF-8.      *)
PathsRewrittenUnderTextBase ==
    Fixed /\ to_str(pure.base).some => ExactlyThePathsRewritten

(***************************************************************************)
(* Claims about find_script (SpecFind).                                    *)
(***************************************************************************)
Searched == pure.fn = "find_script" /\ pure.done

HasExtension(path) ==
    \E i \in 2 .. Len(path) : path[i] = "."

(* The candidates of a path without extension, in the order tried.         *)
Candidates(path) ==
    [i \in DOMAIN SEARCH_EXTS |-> path \o <<".", SEARCH_EXTS[i]>>]

Scraped == pure.fn = "scrape_markdown_manifest" /\ pure.done

CargoBlocks(blocks) ==
    {i \in DOMAIN blocks : blocks[i].fence \in {"~~~cargo", "~~~Cargo"}}

FirstCargoBlock(blocks) ==
    CHOOSE i \in CargoBlocks(blocks) : \A j \in CargoBlocks(blocks) : i <= j

(* C25: scrape_markdown_manifest returns the text of the first fenced code *)
(* block whose info string, lowercased, is cargo, whatever that block      *)
(* holds and whatever follows it, and nothing when there is no such block. *)
(* (The text of an empty block may be reported as no text at all.)         *)
C25_FirstCargoBlockOnly ==
    Scraped =>
        IF CargoBlocks(pure.blocks) = {} THEN ~pure.res.some
        ELSE LET body == pure.blocks[FirstCargoBlock(pure.blocks)].body IN
             /\ pure.res.some \/ body = <<>>
             /\ pure.res.some => pure.res.v = body

(* The same for comments whose first cargo block holds some text.          *)
FirstCargoBlockWhenNotEmpty ==
    /\ Scraped
    /\ CargoBlocks(pure.blocks) # {}
    /\ pure.blocks[FirstCargoBlock(pure.blocks)].body # <<>>
    => /\ pure.res.some
       /\ pure.res.v = pure.blocks[FirstCargoBlock(pure.blocks)].body

(* A later cargo block is returned only after an empty one.                *)
LaterBlockOnlyAfterEmptyOnes ==
    Scraped /\ pure.res.some =>
        \E i \in CargoBlocks(pure.blocks) :
            /\ pure.res.v = pure.blocks[i].body
            /\ \A j \in CargoBlocks(pure.blocks) :
                  j < i => pure.blocks[j].body = <<>>

(***************************************************************************)
(* Claims about the indentation of doc comments (SpecSplit).               *)
(***************************************************************************)
(* The doc comments whose lines do not all start with the white space of   *)
(* the first indented line: a tab where the second space stood, or a line  *)
(* without indentation.                                                    *)
InconsistentIndent == {"block_tab", "block_outdented"}

(* C26: a script whose leading doc comment has inconsistent leading white  *)
(* space fails to split, with an error handed to the caller of             *)
(* split_input; it is not taken for a script without a manifest.           *)
C26_InconsistentIndentIsAnError ==
    /\ Split
    /\ pure.comment \in InconsistentIndent
    /\ pure.before \in BeforeFound
    => ~pure.res.ok

(* What happens instead: such a script is split with the default manifest  *)
(* alone, while the same comment consistently indented gives its manifest. *)
InconsistentIndentIsNoManifest ==
    Split /\ pure.before \in BeforeFound =>
        /\ pure.comment \in InconsistentIndent => DefaultOnly
        /\ pure.comment = "block_indented" => FragmentUsed

(***************************************************************************)
(* Claims about invocations that share the cache (SpecShare).              *)
(***************************************************************************)

(* The invocation q has created or found its package directory d and has   *)
(* not yet come back from the toolchain.                                   *)
InUse(q, d) ==
    /\ proc[q].pc \in {"ow_hash", "ow_persist", "returned", "after_mani",
                       "after_src", "write_meta", "run"}
    /\ proc[q].act.pd = d

(* This step is a turn of p's clean_cache loop that removes the entry d.   *)
GcRemoves(p, d) ==
    /\ proc[p].pc = "cc_loop"
    /\ d \in proc'[p].gc.seen /\ d \notin proc[p].gc.seen
    /\ dir[d].ex /\ ~dir'[d].ex

(* C30: the clean_cache pass of one invocation never removes an entry that *)
(* another running invocation has created or refreshed and is still        *)
(* generating or running from, an entry without a metadata file included.  *)
C30_GcSparesEntriesInUse ==
    [][\A p \in Procs, d \in Ids :
          GcRemoves(p, d) => \A q \in Procs \ {p} : ~InUse(q, d)]_vars

(* What is removed under a running invocation is a directory whose         *)
(* metadata file is not there yet: the other invocation is in              *)
(* gen_pkg_and_compile, before write_pkg_metadata.                         *)
GcRemovesInUseOnlyBeforeMetadata ==
    [][\A p \in Procs, d \in Ids :
          (GcRemoves(p, d) /\ \E q \in Procs \ {p} : InUse(q, d))
              => ~dir[d].meta.ex]_vars
====
